---- MODULE Spec2Model ----
(***************************************************************************)
(* Offline-first fallback chain of agent-sovereign                          *)
(* (src/src/agent_sovereign/offline/fallback_chain.py).                     *)
(*                                                                          *)
(* One OfflineFallbackChain instance.  Every public method is one action;   *)
(* the methods are single-threaded and synchronous, so an action is the     *)
(* whole method, nested calls included.  The caller-supplied callables      *)
(* (primary, local_alt) are opaque: each invocation either returns a value  *)
(* or raises an Exception, chosen by the environment.  Interpreter-exit     *)
(* signals that do not derive from Exception are not failures of a callable *)
(* and are outside the model.  Wall-clock time is the integer clock now.    *)
(***************************************************************************)
EXTENDS Integers, Sequences, FiniteSets, TLC

\* ------------------------------------------------------------------------
\* Bounds of the model
\* ------------------------------------------------------------------------

\* Clock values are 0..MaxTime.
MaxTime == 2

\* Calls counted per tool (the sum of its counters) in Spec and SpecCache.
MaxCalls == 2

\* Calls counted per tool in SpecQueue.
MaxQueueCalls == 4

\* ------------------------------------------------------------------------
\* Python values
\* ------------------------------------------------------------------------

\* Optional values: None is the empty sequence, a present value x is <<x>>.
None == <<>>

Some(x) == <<x>>

\* Argument values a caller may pass.  kind "int" and "str" are built-in
\* scalars (text is the numeral / the content).  kind "obj" is an instance of
\* a caller-defined class Req whose __repr__ shows only the field city (text)
\* and not the field token (ident), as a dataclass with a repr=False field.
PyInt1 == [kind |-> "int", text |-> "1", ident |-> "-"]

PyStr1 == [kind |-> "str", text |-> "1", ident |-> "-"]

PyReqA == [kind |-> "obj", text |-> "x", ident |-> "A"]

PyReqB == [kind |-> "obj", text |-> "x", ident |-> "B"]

\* repr(v), as the sequence of its characters (tokens).
Repr(v) ==
    CASE v.kind = "int" -> <<v.text>>
      [] v.kind = "str" -> <<"'", v.text, "'">>
      [] OTHER          -> <<"Req(city=">> \o <<"'", v.text, "'">> \o <<")">>

RECURSIVE JoinReprs(_)
\* ", ".join(reprs) for a sequence of already rendered elements.
JoinReprs(rs) ==
    IF Len(rs) = 0 THEN <<>>
    ELSE IF Len(rs) = 1 THEN rs[1]
    ELSE rs[1] \o <<", ">> \o JoinReprs(Tail(rs))

\* repr of a tuple whose elements are rendered as rs (one-element tuples
\* carry a trailing comma).
TupleRepr(rs) ==
    IF Len(rs) = 1 THEN <<"(">> \o rs[1] \o <<",", ")">>
    ELSE <<"(">> \o JoinReprs(rs) \o <<")">>

\* repr of a list whose elements are rendered as rs.
ListRepr(rs) == <<"[">> \o JoinReprs(rs) \o <<"]">>

\* Keyword names and their string order ("x" < "y").
KwRank(name) == IF name = "x" THEN 1 ELSE 2

RECURSIVE InsertItem(_, _)
InsertItem(item, sorted) ==
    IF Len(sorted) = 0 THEN <<item>>
    ELSE IF KwRank(item[1]) < KwRank(sorted[1][1]) THEN <<item>> \o sorted
    ELSE <<sorted[1]>> \o InsertItem(item, Tail(sorted))

RECURSIVE SortedItems(_)
\* sorted(kwargs.items()): kwargs is the sequence of <<name, value>> pairs in
\* the caller's order, names are unique, so the order is that of the names.
SortedItems(kwargs) ==
    IF Len(kwargs) = 0 THEN <<>>
    ELSE InsertItem(kwargs[1], SortedItems(Tail(kwargs)))

ReprItem(item) == TupleRepr(<<Repr([kind |-> "str", text |-> item[1], ident |-> "-"]), Repr(item[2])>>)

\* _make_cache_key without sorted(): the keywords in the caller's order.
make_cache_key_unsorted(args, kwargs) ==
    TupleRepr(<<
        TupleRepr([i \in 1..Len(args) |-> Repr(args[i])]),
        ListRepr([i \in 1..Len(kwargs) |-> ReprItem(kwargs[i])])
    >>)

\* _make_cache_key: str((args, sorted(kwargs.items())))
make_cache_key(args, kwargs) ==
    TupleRepr(<<
        TupleRepr([i \in 1..Len(args) |-> Repr(args[i])]),
        ListRepr([i \in 1..Len(kwargs) |-> ReprItem(SortedItems(kwargs)[i])])
    >>)

\* The calls of the model: positional arguments and keyword arguments.
CallInt == [args |-> <<PyInt1>>, kwargs |-> <<>>]

CallKwXY == [args |-> <<>>, kwargs |-> << <<"x", PyInt1>>, <<"y", PyStr1>> >>]

CallKwYX == [args |-> <<>>, kwargs |-> << <<"y", PyStr1>>, <<"x", PyInt1>> >>]

CallReqA == [args |-> <<PyReqA>>, kwargs |-> <<>>]

CallReqB == [args |-> <<PyReqB>>, kwargs |-> <<>>]

CallArgs == {CallInt, CallKwXY, CallKwYX, CallReqA, CallReqB}

\* Two calls pass the same arguments: equal positional tuples and equal
\* keyword dictionaries (a dictionary does not depend on the order in which
\* the caller wrote the keywords).
SameArguments(a, b) ==
    /\ a.args = b.args
    /\ {a.kwargs[i] : i \in 1..Len(a.kwargs)} = {b.kwargs[i] : i \in 1..Len(b.kwargs)}

\* ------------------------------------------------------------------------
\* Enumerations and data structures
\* ------------------------------------------------------------------------

ONLINE == "online"

OFFLINE == "offline"

OnlineState == {ONLINE, OFFLINE}

PRIMARY == "primary"

CACHED == "cached"

LOCAL_OUT == "local"

QUEUED == "queued"

FAILED == "failed"

FallbackOutcome == {PRIMARY, CACHED, LOCAL_OUT, QUEUED, FAILED}

\* Tool identifiers a caller may use; a tool is registered when it is a key
\* of strategies.
Tools == {"weather", "search"}

\* The tools the caller registers; the others stay unknown to the chain.
Registrable == {"weather"}

MaxQueue == 2

QueueSizes == {MaxQueue}

CacheTtls == {1}

\* FallbackStrategy
FallbackStrategy ==
    [tool_name : Registrable, enable_cache : BOOLEAN, enable_local : BOOLEAN,
     enable_queue : BOOLEAN, cache_ttl_seconds : CacheTtls,
     max_queue_size : QueueSizes]

\* QueuedCall
QueuedCall(tool_name, args, kwargs, nw) ==
    [tool_name |-> tool_name, args |-> args, kwargs |-> kwargs, queued_at |-> nw]

\* FallbackResult
FallbackResult(outcome, value, tool_name, nw, cache_age_seconds, error) ==
    [outcome |-> outcome, value |-> value, tool_name |-> tool_name,
     served_at |-> nw, cache_age_seconds |-> cache_age_seconds, error |-> error]

\* _CacheEntry
CacheEntry(value, nw, ttl_seconds) ==
    [value |-> value, stored_at |-> nw, ttl_seconds |-> ttl_seconds]

\* An expiry test under which an entry as old as its TTL is already expired.
is_expired_at_ttl(entry, nw) == (nw - entry.stored_at) >= entry.ttl_seconds

\* _CacheEntry.is_expired
is_expired(entry, nw) == (nw - entry.stored_at) > entry.ttl_seconds

\* _CacheEntry.age_seconds
age_seconds(entry, nw) == nw - entry.stored_at

\* ------------------------------------------------------------------------
\* The environment: what the caller-supplied callables do when invoked
\* ------------------------------------------------------------------------

PrimaryValues == {"p1", "p2"}

OneValue == {"p1"}

LocalValues == {"local_response"}

\* The callables a caller registers.
PrimaryFns == {"primary_fn"}

LocalFns == {"local_fn"}

\* One behaviour of the tool's callables for one call: primary / local is
\* Some(v) when the callable returns v and None when it raises an Exception.
EnvsOf(values) ==
    [primary : {Some(v) : v \in values} \cup {None},
     local : {Some(v) : v \in LocalValues} \cup {None}]

Envs == EnvsOf(PrimaryValues)

\* ------------------------------------------------------------------------
\* OfflineFallbackChain: the methods as operators on the instance c
\* (fields state, strategies, primaries, locals, caches, queues,
\* call_counts) at clock value nw.  A private helper returns
\*   chain   the instance afterwards
\*   result  Some(FallbackResult) or None
\*   raised  Some(exception) when the helper raises, else None
\*   tried   the tiers entered, in order, each with what happened there
\* ------------------------------------------------------------------------

Ret(chain, result, raised, tried) ==
    [chain |-> chain, result |-> result, raised |-> raised, tried |-> tried]

\* _increment
increment(c, tool_name, outcome) ==
    IF tool_name \in DOMAIN c.call_counts
    THEN [c EXCEPT !.call_counts[tool_name][outcome] = @ + 1]
    ELSE c

\* dict[key] = value
DictSet(d, key, value) ==
    [k \in DOMAIN d \cup {key} |-> IF k = key THEN value ELSE d[k]]

\* del dict[key]
DictDel(d, key) == [k \in DOMAIN d \ {key} |-> d[k]]

\* deque.append that refuses the new element when the deque is full.
deque_append_keep_oldest(q, x) ==
    IF Len(q.items) >= q.maxlen THEN q
    ELSE [q EXCEPT !.items = Append(@, x)]

\* deque.appendleft in place of deque.append
deque_appendleft(q, x) ==
    IF q.maxlen = 0 THEN q
    ELSE IF Len(q.items) = q.maxlen
         THEN [q EXCEPT !.items = <<x>> \o SubSeq(@, 1, Len(@) - 1)]
         ELSE [q EXCEPT !.items = <<x>> \o @]

\* deque.append on a deque created with maxlen
deque_append(q, x) ==
    IF q.maxlen = 0 THEN q
    ELSE IF Len(q.items) = q.maxlen
         THEN [q EXCEPT !.items = Append(Tail(@), x)]
         ELSE [q EXCEPT !.items = Append(@, x)]

\* _try_primary without the except clause: an exception of the primary
\* propagates to the caller.
try_primary_propagates(c, tool_name, strategy, cache_key, env, nw) ==
    IF env.primary # None
    THEN LET value == env.primary[1]
             c1 == IF strategy.enable_cache
                   THEN [c EXCEPT !.caches[tool_name] =
                            DictSet(@, cache_key,
                                    CacheEntry(value, nw, strategy.cache_ttl_seconds))]
                   ELSE c
             c2 == increment(c1, tool_name, PRIMARY)
         IN  Ret(c2, Some(FallbackResult(PRIMARY, Some(value), tool_name, nw, None, None)),
                 None, << <<"primary", "returned">> >>)
    ELSE Ret(c, None, Some("Exception"), << <<"primary", "raised">> >>)

\* _try_primary storing the value whatever enable_cache says.
try_primary_caching_always(c, tool_name, strategy, cache_key, env, nw) ==
    IF env.primary # None
    THEN LET value == env.primary[1]
             c1 == [c EXCEPT !.caches[tool_name] =
                        DictSet(@, cache_key,
                                CacheEntry(value, nw, strategy.cache_ttl_seconds))]
             c2 == increment(c1, tool_name, PRIMARY)
         IN  Ret(c2, Some(FallbackResult(PRIMARY, Some(value), tool_name, nw, None, None)),
                 None, << <<"primary", "returned">> >>)
    ELSE Ret(c, None, None, << <<"primary", "raised">> >>)

\* _try_primary
try_primary(c, tool_name, strategy, cache_key, env, nw) ==
    IF env.primary # None
    THEN LET value == env.primary[1]
             c1 == IF strategy.enable_cache
                   THEN [c EXCEPT !.caches[tool_name] =
                            DictSet(@, cache_key,
                                    CacheEntry(value, nw, strategy.cache_ttl_seconds))]
                   ELSE c
             c2 == increment(c1, tool_name, PRIMARY)
         IN  Ret(c2, Some(FallbackResult(PRIMARY, Some(value), tool_name, nw, None, None)),
                 None, << <<"primary", "returned">> >>)
    ELSE Ret(c, None, None, << <<"primary", "raised">> >>)

\* _try_cache over one cache shared by all tools: the entry is looked up in
\* the cache of any tool that holds the key.
try_cache_shared(c, tool_name, cache_key, nw) ==
    LET holders == {u \in DOMAIN c.caches : cache_key \in DOMAIN c.caches[u]}
    IN  IF holders = {}
        THEN Ret(c, None, None, << <<"cache", "miss">> >>)
        ELSE LET owner == IF tool_name \in holders THEN tool_name
                          ELSE CHOOSE u \in holders : TRUE
                 entry == c.caches[owner][cache_key]
             IN  IF is_expired(entry, nw)
                 THEN Ret([c EXCEPT !.caches[owner] = DictDel(@, cache_key)],
                          None, None, << <<"cache", "expired">> >>)
                 ELSE Ret(increment(c, tool_name, CACHED),
                          Some(FallbackResult(CACHED, Some(entry.value), tool_name, nw,
                                              Some(age_seconds(entry, nw)), None)),
                          None, << <<"cache", "hit">> >>)

\* _try_cache
try_cache(c, tool_name, cache_key, nw) ==
    LET cache == IF tool_name \in DOMAIN c.caches THEN c.caches[tool_name] ELSE <<>>
        present == cache_key \in DOMAIN cache
    IN  IF ~present
        THEN Ret(c, None, None, << <<"cache", "miss">> >>)
        ELSE IF is_expired(cache[cache_key], nw)
        THEN Ret([c EXCEPT !.caches[tool_name] = DictDel(@, cache_key)],
                 None, None, << <<"cache", "expired">> >>)
        ELSE LET entry == cache[cache_key]
             IN  Ret(increment(c, tool_name, CACHED),
                     Some(FallbackResult(CACHED, Some(entry.value), tool_name, nw,
                                         Some(age_seconds(entry, nw)), None)),
                     None, << <<"cache", "hit">> >>)

\* _try_local
try_local(c, tool_name, env, nw) ==
    IF env.local # None
    THEN Ret(increment(c, tool_name, LOCAL_OUT),
             Some(FallbackResult(LOCAL_OUT, Some(env.local[1]), tool_name, nw, None, None)),
             None, << <<"local", "returned">> >>)
    ELSE Ret(c, None, None, << <<"local", "raised">> >>)

\* _queue_call
queue_call(c, tool_name, strategy, a, nw) ==
    LET queued == QueuedCall(tool_name, a.args, a.kwargs, nw)
        c1 == [c EXCEPT !.queues[tool_name] = deque_append(@, queued)]
    IN  Ret(increment(c1, tool_name, QUEUED),
            Some(FallbackResult(QUEUED, None, tool_name, nw, None, None)),
            None, << <<"queue", "appended">> >>)

\* _failed_result that does not count the outcome.
failed_result_uncounted(c, tool_name, error, nw) ==
    Ret(c, Some(FallbackResult(FAILED, None, tool_name, nw, None, Some(error))),
        None, <<>>)

\* _failed_result
failed_result(c, tool_name, error, nw) ==
    Ret(increment(c, tool_name, FAILED),
        Some(FallbackResult(FAILED, None, tool_name, nw, None, Some(error))),
        None, <<>>)

\* A helper that was not entered.
Skipped(c) == Ret(c, None, None, <<>>)

\* The value of body(v), v being evaluated once.
Bind(v, body(_)) == CHOOSE y \in {body(x) : x \in {v}} : TRUE

\* A later stage of call: nothing more happens once an earlier stage has
\* returned a result or raised; otherwise the stage next(chain) is entered.
Then(r, next(_)) ==
    IF r.result # None \/ r.raised # None THEN r
    ELSE Bind(next(r.chain),
              LAMBDA n : Ret(n.chain, n.result, n.raised, r.tried \o n.tried))

\* The four stages of call after the registration check, each entered only
\* when no earlier stage has returned.  a is the call (args, kwargs), env
\* what the callables do when invoked.
\* A primary stage that does not look at the connectivity state.
primary_tier_ungated(c, tool_name, a, env, nw) ==
    try_primary(c, tool_name, c.strategies[tool_name],
                make_cache_key(a.args, a.kwargs), env, nw)

\* A primary stage that marks the chain OFFLINE when the primary fails.
primary_tier_marking_offline(c, tool_name, a, env, nw) ==
    IF c.state = ONLINE
    THEN LET r == try_primary(c, tool_name, c.strategies[tool_name],
                              make_cache_key(a.args, a.kwargs), env, nw)
         IN  IF r.result = None THEN [r EXCEPT !.chain.state = OFFLINE] ELSE r
    ELSE Skipped(c)

primary_tier(c, tool_name, a, env, nw) ==
    IF c.state = ONLINE
    THEN try_primary(c, tool_name, c.strategies[tool_name],
                     make_cache_key(a.args, a.kwargs), env, nw)
    ELSE Skipped(c)

cache_tier(c, tool_name, a, env, nw) ==
    IF c.strategies[tool_name].enable_cache
    THEN try_cache(c, tool_name, make_cache_key(a.args, a.kwargs), nw)
    ELSE Skipped(c)

\* The local stage entered whenever a local callable is registered, whatever
\* the strategy says.
local_tier_unchecked(c, tool_name, a, env, nw) ==
    IF tool_name \in DOMAIN c.locals
    THEN try_local(c, tool_name, env, nw)
    ELSE Skipped(c)

local_tier(c, tool_name, a, env, nw) ==
    IF c.strategies[tool_name].enable_local /\ tool_name \in DOMAIN c.locals
    THEN try_local(c, tool_name, env, nw)
    ELSE Skipped(c)

last_tier(c, tool_name, a, env, nw) ==
    IF c.strategies[tool_name].enable_queue
    THEN queue_call(c, tool_name, c.strategies[tool_name], a, nw)
    ELSE failed_result(c, tool_name, "All fallback tiers exhausted", nw)

\* The cascade with the local tier consulted before the cache.
cascade_local_first(c, tool_name, a, env, nw) ==
    LET second(c1) == local_tier(c1, tool_name, a, env, nw)
        third(c2) == cache_tier(c2, tool_name, a, env, nw)
        fourth(c3) == last_tier(c3, tool_name, a, env, nw)
    IN  Bind(primary_tier(c, tool_name, a, env, nw), LAMBDA r1 :
        Bind(Then(r1, second), LAMBDA r2 :
        Bind(Then(r2, third), LAMBDA r3 :
             Then(r3, fourth))))

\* call, for a registered tool: primary, cache, local, queue or FAILED.
cascade(c, tool_name, a, env, nw) ==
    LET second(c1) == cache_tier(c1, tool_name, a, env, nw)
        third(c2) == local_tier(c2, tool_name, a, env, nw)
        fourth(c3) == last_tier(c3, tool_name, a, env, nw)
    IN  Bind(primary_tier(c, tool_name, a, env, nw), LAMBDA r1 :
        Bind(Then(r1, second), LAMBDA r2 :
        Bind(Then(r2, third), LAMBDA r3 :
             Then(r3, fourth))))

\* call that reports an unknown tool as a FAILED result instead of raising.
call_unchecked(c, tool_name, a, env, nw) ==
    IF tool_name \notin DOMAIN c.strategies
    THEN failed_result(c, tool_name, "not registered", nw)
    ELSE cascade(c, tool_name, a, env, nw)

\* call
call(c, tool_name, a, env, nw) ==
    IF tool_name \notin DOMAIN c.strategies
    THEN Ret(c, None, Some("KeyError"), <<>>)
    ELSE cascade(c, tool_name, a, env, nw)

RECURSIVE replay(_, _, _, _, _)
\* The for loop of flush_queue over retry_calls: re-invokes call for each
\* drained QueuedCall, envs[i] being what the callables do during the i-th
\* re-invocation.  Returns the instance, the results, the exception that ended
\* the loop (if any) and the arguments re-invoked, in order.
replay(c, tool_name, retry_calls, envs, nw) ==
    IF Len(retry_calls) = 0
    THEN [chain |-> c, results |-> <<>>, raised |-> None, replayed |-> <<>>]
    ELSE LET queued == retry_calls[1]
             a == [args |-> queued.args, kwargs |-> queued.kwargs]
         IN  Bind(call(c, tool_name, a, envs[1], nw), LAMBDA res :
               IF res.raised # None
               THEN [chain |-> res.chain, results |-> <<>>, raised |-> res.raised,
                     replayed |-> <<a>>]
               ELSE Bind(replay(res.chain, tool_name, Tail(retry_calls), Tail(envs), nw),
                         LAMBDA rest :
                           [chain |-> rest.chain,
                            results |-> <<res.result[1]>> \o rest.results,
                            raised |-> rest.raised,
                            replayed |-> <<a>> \o rest.replayed]))

\* flush_queue that iterates over the queue without draining it first.
flush_queue_undrained(c, tool_name, envs, nw) ==
    IF tool_name \notin DOMAIN c.queues
    THEN [chain |-> c, results |-> <<>>, raised |-> None, replayed |-> <<>>]
    ELSE replay(c, tool_name, c.queues[tool_name].items, envs, nw)

\* flush_queue that returns after the first re-invocation.
flush_queue_first_only(c, tool_name, envs, nw) ==
    IF tool_name \notin DOMAIN c.queues
    THEN [chain |-> c, results |-> <<>>, raised |-> None, replayed |-> <<>>]
    ELSE LET retry_calls == c.queues[tool_name].items
             drained == [c EXCEPT !.queues[tool_name].items = <<>>]
         IN  replay(drained, tool_name,
                    IF Len(retry_calls) = 0 THEN <<>> ELSE <<retry_calls[1]>>,
                    envs, nw)

\* flush_queue raising KeyError for a tool that has no queue, as call does.
flush_queue_raising(c, tool_name, envs, nw) ==
    IF tool_name \notin DOMAIN c.queues
    THEN [chain |-> c, results |-> <<>>, raised |-> Some("KeyError"), replayed |-> <<>>]
    ELSE LET retry_calls == c.queues[tool_name].items
             drained == [c EXCEPT !.queues[tool_name].items = <<>>]
         IN  replay(drained, tool_name, retry_calls, envs, nw)

\* flush_queue retrying the newest queued call first.
flush_queue_newest_first(c, tool_name, envs, nw) ==
    IF tool_name \notin DOMAIN c.queues
    THEN [chain |-> c, results |-> <<>>, raised |-> None, replayed |-> <<>>]
    ELSE LET retry_calls == c.queues[tool_name].items
             drained == [c EXCEPT !.queues[tool_name].items = <<>>]
         IN  replay(drained, tool_name,
                    [i \in 1..Len(retry_calls) |-> retry_calls[Len(retry_calls) + 1 - i]],
                    envs, nw)

\* flush_queue
flush_queue(c, tool_name, envs, nw) ==
    IF tool_name \notin DOMAIN c.queues
    THEN [chain |-> c, results |-> <<>>, raised |-> None, replayed |-> <<>>]
    ELSE LET retry_calls == c.queues[tool_name].items
             drained == [c EXCEPT !.queues[tool_name].items = <<>>]
         IN  replay(drained, tool_name, retry_calls, envs, nw)

\* register_tool
register_tool(c, strategy, primary, local_alt) ==
    LET name == strategy.tool_name
    IN  [c EXCEPT
            !.strategies = DictSet(@, name, strategy),
            !.primaries = DictSet(@, name, primary),
            !.locals = IF local_alt # None THEN DictSet(@, name, local_alt[1]) ELSE @,
            !.caches = DictSet(@, name, <<>>),
            !.queues = DictSet(@, name, [maxlen |-> strategy.max_queue_size,
                                         items |-> <<>>]),
            !.call_counts = DictSet(@, name, [o \in FallbackOutcome |-> 0])]

\* A set_state that empties every queue when the chain goes ONLINE.
set_state_draining(c, new_state) ==
    [c EXCEPT !.state = new_state,
              !.queues = IF new_state = ONLINE
                         THEN [t \in DOMAIN @ |-> [@[t] EXCEPT !.items = <<>>]]
                         ELSE @]

\* set_state
set_state(c, new_state) == [c EXCEPT !.state = new_state]

\* get_queue_size
get_queue_size(c, tool_name) ==
    IF tool_name \in DOMAIN c.queues THEN Len(c.queues[tool_name].items) ELSE 0

\* get_call_stats
get_call_stats(c, tool_name) ==
    IF tool_name \in DOMAIN c.call_counts THEN c.call_counts[tool_name] ELSE <<>>

\* ------------------------------------------------------------------------
\* The sync orchestrator (sync/orchestrator.py): enumerations and records
\* ------------------------------------------------------------------------

\* SyncPriority: the lower the value, the higher the priority.
CRITICAL == 0

HIGH == 1

NORMAL == 2

LOW == 3

SyncPriority == {CRITICAL, HIGH, NORMAL, LOW}

\* SyncStatus
PENDING == "pending"

IN_FLIGHT == "in_flight"

SYNCED == "synced"

CONFLICT == "conflict"

SYNC_FAILED == "failed"

SKIPPED == "skipped"

SyncStatus == {PENDING, IN_FLIGHT, SYNCED, CONFLICT, SYNC_FAILED, SKIPPED}

\* ConflictResolution
LAST_WRITE_WINS == "last_write_wins"

MANUAL == "manual"

LOCAL_WINS == "local_wins"

REMOTE_WINS == "remote_wins"

ConflictResolution == {LAST_WRITE_WINS, MANUAL, LOCAL_WINS, REMOTE_WINS}

\* A conflict_resolution the caller left unset (a falsy value).
Unset == ""

\* The int 2; PyInt1 is the int 1 and PyStr1 the str "1".
PyInt2 == [kind |-> "int", text |-> "2", ident |-> "-"]

\* str(value): a str is its own text (no quotes), an int its digits.
Str(v) == IF v.kind = "obj" THEN Repr(v) ELSE <<v.text>>

\* SyncItem._compute_checksum: the SHA-256 of str(value); the digest is kept as
\* the text digested (two digests are equal iff the texts are).
compute_checksum(value) == <<"sha256">> \o Str(value)

\* The empty string a missing checksum is read as.
NoChecksum == <<>>

\* SyncItem(...) with __post_init__: the checksum is computed on creation.
SyncItem(item_id, key, local_value, priority, remote_value, local_modified_at, remote_modified_at, conflict_resolution) ==
    [item_id |-> item_id, key |-> key, local_value |-> local_value,
     priority |-> priority, remote_value |-> remote_value,
     local_modified_at |-> local_modified_at,
     remote_modified_at |-> remote_modified_at, status |-> PENDING,
     conflict_resolution |-> conflict_resolution,
     local_checksum |-> compute_checksum(local_value),
     synced_at |-> None, error |-> None]

\* SyncItem.has_changed
has_changed(item, previous_checksum) == item.local_checksum # previous_checksum

\* SyncResult(...)
SyncResult(item_id, key, status, conflict_resolved_value, synced_at) ==
    [item_id |-> item_id, key |-> key, status |-> status,
     conflict_resolved_value |-> conflict_resolved_value,
     synced_at |-> synced_at, error |-> None]

\* ------------------------------------------------------------------------
\* SyncOrchestrator: the methods, as operators on the instance o.  o.items
\* holds the SyncItem objects the caller has created, by item_id; the queue
\* and the manual-conflict list hold references to them.  A method returns
\* the instance after it (orc), what it returned or raised, and the status
\* assignments it made, in order, as <<item, from, to>> (writes).
\* ------------------------------------------------------------------------

\* item.status = status
set_status(o, ref, status) == [o EXCEPT !.items[ref].status = status]

\* enqueue
enqueue(o, ref) ==
    LET defaulted ==
            IF o.items[ref].conflict_resolution = Unset
            THEN [o EXCEPT !.items[ref].conflict_resolution = o.default_conflict]
            ELSE o
    IN  [defaulted EXCEPT !.queue = Append(@, ref)]

RECURSIVE enqueue_batch(_, _)
\* enqueue_batch
enqueue_batch(o, refs) ==
    IF Len(refs) = 0 THEN o
    ELSE enqueue_batch(enqueue(o, refs[1]), Tail(refs))

\* [i for i in self._queue if i.status == PENDING]
PendingRefs(o) == SelectSeq(o.queue, LAMBDA ref : o.items[ref].status = PENDING)

\* queue_size
queue_size(o) == Len(PendingRefs(o))

RECURSIVE InsertByPriority_unstable(_, _, _)
RECURSIVE InsertByPriority(_, _, _)
\* One step of a sort that puts ref in front of the elements of its own
\* priority.
InsertByPriority_unstable(o, ref, sorted) ==
    IF Len(sorted) = 0 THEN <<ref>>
    ELSE IF o.items[sorted[Len(sorted)]].priority < o.items[ref].priority
    THEN Append(sorted, ref)
    ELSE Append(InsertByPriority_unstable(o, ref, SubSeq(sorted, 1, Len(sorted) - 1)),
                sorted[Len(sorted)])

\* One step of the stable sort: ref goes behind every element whose priority
\* is not greater than its own.
InsertByPriority(o, ref, sorted) ==
    IF Len(sorted) = 0 THEN <<ref>>
    ELSE IF o.items[sorted[Len(sorted)]].priority <= o.items[ref].priority
    THEN Append(sorted, ref)
    ELSE Append(InsertByPriority(o, ref, SubSeq(sorted, 1, Len(sorted) - 1)),
                sorted[Len(sorted)])

RECURSIVE SortedByPriority(_, _)
\* sorted(refs, key=lambda i: i.priority.value): stable.
SortedByPriority(o, refs) ==
    IF Len(refs) = 0 THEN <<>>
    ELSE InsertByPriority(o, refs[Len(refs)],
                          SortedByPriority(o, SubSeq(refs, 1, Len(refs) - 1)))

\* get_pending
get_pending(o) == SortedByPriority(o, PendingRefs(o))

\* What _sync_item and _handle_conflict return.
Synced(orc, result, writes) == [orc |-> orc, result |-> result, writes |-> writes]

\* A SYNCED exit that always records the checksum of the local value.
mark_synced_local_checksum(o, ref, checksum, winning_value, nw) ==
    LET item == o.items[ref]
        o1 == [o EXCEPT !.checksums = DictSet(@, item.key, item.local_checksum),
                        !.items[ref].status = SYNCED,
                        !.items[ref].synced_at = Some(nw)]
    IN  Synced(o1,
               Some(SyncResult(item.item_id, item.key, SYNCED, Some(winning_value), nw)),
               <<<<ref, item.status, SYNCED>>>>)

\* The SYNCED exit shared by the branches: record the checksum, mark the item.
mark_synced(o, ref, checksum, winning_value, nw) ==
    LET item == o.items[ref]
        o1 == [o EXCEPT !.checksums = DictSet(@, item.key, checksum),
                        !.items[ref].status = SYNCED,
                        !.items[ref].synced_at = Some(nw)]
    IN  Synced(o1,
               Some(SyncResult(item.item_id, item.key, SYNCED, Some(winning_value), nw)),
               <<<<ref, item.status, SYNCED>>>>)

\* A last-write-wins in which the remote value wins a tie.
last_write_ties_remote(item) ==
    IF item.remote_modified_at[1] >= item.local_modified_at
    THEN item.remote_value[1]
    ELSE item.local_value

\* LAST_WRITE_WINS: the remote value if remote_ts > local_ts, else the local.
last_write(item) ==
    IF item.remote_modified_at[1] > item.local_modified_at
    THEN item.remote_value[1]
    ELSE item.local_value

\* _handle_conflict refusing a policy that is none of the four strategies:
\* the item and its result become FAILED.
handle_conflict_rejecting(o, ref, nw) ==
    LET item == o.items[ref]
        local_ts == item.local_modified_at
        remote_ts == item.remote_modified_at[1]
        remote_value == item.remote_value[1]
        strategy == IF item.conflict_resolution = Unset
                    THEN o.default_conflict
                    ELSE item.conflict_resolution
    IN  IF /\ local_ts = remote_ts
           /\ item.local_checksum = compute_checksum(remote_value)
        THEN Synced(o, None, <<>>)
        ELSE IF strategy = LAST_WRITE_WINS
        THEN mark_synced(o, ref, compute_checksum(last_write(item)), last_write(item), nw)
        ELSE IF strategy = LOCAL_WINS
        THEN mark_synced(o, ref, item.local_checksum, item.local_value, nw)
        ELSE IF strategy = REMOTE_WINS
        THEN mark_synced(o, ref, compute_checksum(remote_value), remote_value, nw)
        ELSE IF strategy = MANUAL
        THEN Synced([o EXCEPT !.items[ref].status = CONFLICT,
                              !.manual_conflicts = Append(@, ref)],
                    Some(SyncResult(item.item_id, item.key, CONFLICT, None, nw)),
                    <<<<ref, item.status, CONFLICT>>>>)
        ELSE Synced([o EXCEPT !.items[ref].status = SYNC_FAILED],
                    Some(SyncResult(item.item_id, item.key, SYNC_FAILED, None, nw)),
                    <<<<ref, item.status, SYNC_FAILED>>>>)

\* _handle_conflict: result None when no conflict exists.
handle_conflict(o, ref, nw) ==
    LET item == o.items[ref]
        local_ts == item.local_modified_at
        remote_ts == item.remote_modified_at[1]
        remote_value == item.remote_value[1]
        strategy == IF item.conflict_resolution = Unset
                    THEN o.default_conflict
                    ELSE item.conflict_resolution
    IN  IF /\ local_ts = remote_ts
           /\ item.local_checksum = compute_checksum(remote_value)
        THEN Synced(o, None, <<>>)
        ELSE IF strategy = LAST_WRITE_WINS
        THEN LET winning_value == last_write(item)
             IN  mark_synced(o, ref, compute_checksum(winning_value), winning_value, nw)
        ELSE IF strategy = LOCAL_WINS
        THEN mark_synced(o, ref, item.local_checksum, item.local_value, nw)
        ELSE IF strategy = REMOTE_WINS
        THEN mark_synced(o, ref, compute_checksum(remote_value), remote_value, nw)
        ELSE IF strategy = MANUAL
        THEN Synced([o EXCEPT !.items[ref].status = CONFLICT,
                              !.manual_conflicts = Append(@, ref)],
                    Some(SyncResult(item.item_id, item.key, CONFLICT, None, nw)),
                    <<<<ref, item.status, CONFLICT>>>>)
        ELSE Synced(o, None, <<>>)

\* _sync_item
sync_item(o, ref, nw) ==
    LET in_flight == set_status(o, ref, IN_FLIGHT)
        item == in_flight.items[ref]
        started == <<<<ref, o.items[ref].status, IN_FLIGHT>>>>
        last_checksum == IF item.key \in DOMAIN o.checksums
                         THEN o.checksums[item.key]
                         ELSE NoChecksum
    IN  IF last_checksum # NoChecksum /\ ~has_changed(item, last_checksum)
        THEN Synced(set_status(in_flight, ref, SKIPPED),
                    Some(SyncResult(item.item_id, item.key, SKIPPED, None, nw)),
                    started \o <<<<ref, IN_FLIGHT, SKIPPED>>>>)
        ELSE LET conflict_result ==
                     IF item.remote_value # None /\ item.remote_modified_at # None
                     THEN handle_conflict(in_flight, ref, nw)
                     ELSE Synced(in_flight, None, <<>>)
             IN  IF conflict_result.result # None
                 THEN [conflict_result EXCEPT !.writes = started \o @]
                 ELSE [mark_synced(in_flight, ref, item.local_checksum,
                                   item.local_value, nw)
                          EXCEPT !.writes = started \o @]

\* What sync_all and sync_priority return: the results, and the items they
\* processed, in order.
Batch(orc, results, writes, processed) ==
    [orc |-> orc, results |-> results, raised |-> None, writes |-> writes,
     processed |-> processed]

RECURSIVE sync_each_unlogged(_, _, _)
RECURSIVE sync_each(_, _, _)
\* A loop that returns the results without appending them to the history.
sync_each_unlogged(o, refs, nw) ==
    IF Len(refs) = 0 THEN Batch(o, <<>>, <<>>, <<>>)
    ELSE LET one == sync_item(o, refs[1], nw)
             rest == sync_each_unlogged(one.orc, Tail(refs), nw)
         IN  Batch(rest.orc, <<one.result[1]>> \o rest.results,
                   one.writes \o rest.writes, <<refs[1]>> \o rest.processed)

\* for item in ...: result = self._sync_item(item); results.append(result);
\* self._history.append(result)
sync_each(o, refs, nw) ==
    IF Len(refs) = 0 THEN Batch(o, <<>>, <<>>, <<>>)
    ELSE LET one == sync_item(o, refs[1], nw)
             logged == [one.orc EXCEPT !.history = Append(@, one.result[1])]
             rest == sync_each(logged, Tail(refs), nw)
         IN  Batch(rest.orc, <<one.result[1]>> \o rest.results,
                   one.writes \o rest.writes, <<refs[1]>> \o rest.processed)

\* sync_all
sync_all(o, nw) == sync_each(o, get_pending(o), nw)

\* A sync_priority that syncs every pending item.
sync_priority_unfiltered(o, priority, nw) == sync_all(o, nw)

\* sync_priority
sync_priority(o, priority, nw) ==
    sync_each(o,
              SelectSeq(o.queue, LAMBDA ref : /\ o.items[ref].status = PENDING
                                             /\ o.items[ref].priority = priority),
              nw)

RECURSIVE RemoveFirst(_, _)
\* list.remove(x): the first occurrence is removed.
RemoveFirst(seq, x) ==
    IF Len(seq) = 0 THEN seq
    ELSE IF seq[1] = x THEN Tail(seq)
    ELSE <<seq[1]>> \o RemoveFirst(Tail(seq), x)

\* resolve_manual_conflict
resolve_manual_conflict(o, item_id, chosen_value, nw) ==
    LET found == SelectSeq(o.manual_conflicts,
                           LAMBDA ref : o.items[ref].item_id = item_id)
    IN  IF Len(found) = 0
        THEN [orc |-> o, results |-> <<>>, raised |-> Some("KeyError"),
              writes |-> <<>>, processed |-> <<>>]
        ELSE LET conflicted == found[1]
                 item == o.items[conflicted]
                 result == SyncResult(item_id, item.key, SYNCED, Some(chosen_value), nw)
                 o1 == [o EXCEPT !.manual_conflicts = RemoveFirst(@, conflicted),
                                 !.checksums = DictSet(@, item.key,
                                                       compute_checksum(chosen_value)),
                                 !.items[conflicted].status = SYNCED,
                                 !.history = Append(@, result)]
             IN  Batch(o1, <<result>>, <<<<conflicted, item.status, SYNCED>>>>, <<>>)

\* get_manual_conflicts
get_manual_conflicts(o) == o.manual_conflicts

\* get_history
get_history(o) == o.history

\* get_stats
get_stats(o) ==
    [status \in SyncStatus |->
        Cardinality({i \in 1..Len(o.history) : o.history[i].status = status})]

\* ------------------------------------------------------------------------
\* Edge sync manager (src/src/agent_sovereign/edge/sync.py): the methods of
\* SyncManager, as operators on the instance m.  m.tasks maps a task_id to
\* the SyncTask object; m.queue and m.completed hold task_ids.  A processor
\* is None or a callable which, invoked with a task, returns a true value,
\* returns a false value or raises.
\* ------------------------------------------------------------------------

\* SyncTaskStatus; PENDING and FAILED have the values of SyncStatus above.
IN_PROGRESS == "in_progress"

COMPLETED == "completed"

\* SyncPolicy(...), the fields the manager reads.
SyncPolicy(max_retry_attempts, sync_window_start_hour, sync_window_end_hour, allowed_sync_types) ==
    [max_retry_attempts |-> max_retry_attempts,
     sync_window_start_hour |-> sync_window_start_hour,
     sync_window_end_hour |-> sync_window_end_hour,
     allowed_sync_types |-> allowed_sync_types]

\* SyncPolicy(): the defaults of the dataclass.
DefaultPolicy == SyncPolicy(3, -1, -1, <<>>)

\* SyncTask(...) as queue_sync creates it: the fields the manager reads
\* or writes, but for the timestamps.
SyncTask(task_id, priority) ==
    [task_id |-> task_id, priority |-> priority, status |-> PENDING, retry_count |-> 0]

\* The table priority_order of process_queue.
priority_order(priority) ==
    CASE priority = "critical" -> 0
      [] priority = "high"     -> 1
      [] priority = "normal"   -> 2
      [] priority = "low"      -> 3
      [] OTHER                 -> 99

\* _is_within_sync_window, at the given UTC hour
is_within_sync_window(m, current_hour) ==
    IF m.policy.sync_window_start_hour = -1 \/ m.policy.sync_window_end_hour = -1
    THEN TRUE
    ELSE IF m.policy.sync_window_start_hour <= m.policy.sync_window_end_hour
    THEN /\ m.policy.sync_window_start_hour <= current_hour
         /\ current_hour <= m.policy.sync_window_end_hour
    ELSE \/ current_hour >= m.policy.sync_window_start_hour
         \/ current_hour <= m.policy.sync_window_end_hour

\* queue_sync; task_id is the fresh uuid4.
queue_sync(m, task_id, sync_type, priority) ==
    IF /\ m.policy.allowed_sync_types # <<>>
       /\ ~\E i \in DOMAIN m.policy.allowed_sync_types :
              m.policy.allowed_sync_types[i] = sync_type
    THEN [mgr |-> m, task |-> None, raised |-> Some("ValueError")]
    ELSE [mgr |-> [m EXCEPT !.tasks = DictSet(@, task_id, SyncTask(task_id, priority)),
                            !.queue = Append(@, task_id)],
          task |-> Some(task_id), raised |-> None]

\* The PENDING tasks of the queue with the given rank in priority_order.
PendingOfRank(m, rank) ==
    SelectSeq(m.queue, LAMBDA id : /\ m.tasks[id].status = PENDING
                                   /\ priority_order(m.tasks[id].priority) = rank)

\* pending, after pending.sort(key=...): the sort is stable.
sorted_pending(m) ==
    PendingOfRank(m, 0) \o PendingOfRank(m, 1) \o PendingOfRank(m, 2)
        \o PendingOfRank(m, 3) \o PendingOfRank(m, 99)

\* The else branch of the loop body: the processor returned a false value.
count_failure(task, policy) ==
    [task EXCEPT !.retry_count = @ + 1,
                 !.status = IF task.retry_count + 1 >= policy.max_retry_attempts
                            THEN FAILED ELSE PENDING]

RECURSIVE process_tasks(_, _, _, _)
\* The loop "for task in pending" of process_queue.  An exception of the
\* processor leaves the loop and the method.
process_tasks(m, pending, processor, processed) ==
    IF pending = <<>> THEN [mgr |-> m, processed |-> processed, raised |-> None]
    ELSE IF processor # None /\ processor[1][pending[1]] = "raise"
    THEN [mgr |-> [m EXCEPT !.tasks[pending[1]].status = IN_PROGRESS],
          processed |-> processed, raised |-> Some("Exception")]
    ELSE process_tasks(
            [m EXCEPT !.tasks[pending[1]] =
                IF processor = None \/ processor[1][pending[1]] = "true"
                THEN [@ EXCEPT !.status = COMPLETED]
                ELSE count_failure(@, m.policy)],
            Tail(pending), processor, Append(processed, pending[1]))

\* The loop that moves completed and failed tasks to the history.
move_finished(m) ==
    [m EXCEPT !.completed = @ \o SelectSeq(m.queue, LAMBDA id : m.tasks[id].status \in {COMPLETED, FAILED}),
              !.queue = SelectSeq(@, LAMBDA id : m.tasks[id].status \notin {COMPLETED, FAILED})]

\* process_queue, called at the given UTC hour.
process_queue(m, current_hour, processor) ==
    IF ~is_within_sync_window(m, current_hour)
    THEN [mgr |-> m, processed |-> <<>>, raised |-> None]
    ELSE LET r == process_tasks(m, sorted_pending(m), processor, <<>>)
         IN  IF r.raised # None THEN r ELSE [r EXCEPT !.mgr = move_finished(@)]

\* ------------------------------------------------------------------------
\* State
\* ------------------------------------------------------------------------

VARIABLES
    state,          \* _state
    strategies,     \* _strategies: tool name -> FallbackStrategy
    primaries,      \* _primaries: tool name -> callable
    locals,         \* _locals: tool name -> callable
    caches,         \* _caches: tool name -> (cache key -> _CacheEntry)
    queues,         \* _queues: tool name -> deque (maxlen, items)
    call_counts,    \* _call_counts: tool name -> (outcome -> count)
    now,            \* the wall clock
    last,           \* the last operation and what it returned to the caller
    primed,         \* a PRIMARY call followed by set_state(OFFLINE) and a call
    completed,      \* tool name -> calls returned since its registration
    cache_writer,   \* <<tool, cache key>> -> the call whose PRIMARY result was
                    \* stored last under that key, and the value stored
    queued_log,     \* tool name -> the calls that returned QUEUED since the
                    \* tool's last flush_queue or registration, in order;
                    \* whether all of them were made while OFFLINE; whether
                    \* those of the last flush_queue had been
    registered      \* tool name -> the arguments of its latest register_tool

VARIABLES
    default_conflict,   \* _default_conflict
    queue,              \* _queue: references to SyncItem objects
    checksums,          \* _checksums: key -> last synced checksum
    history,            \* _history
    manual_conflicts,   \* _manual_conflicts: references to SyncItem objects
    items,              \* the SyncItem objects the caller created, by item_id
    sync_last,          \* the last orchestrator operation and what it returned
    threads             \* thread -> the orchestrator method it runs, the
                        \* statement it is at and its local variables

VARIABLES
    edge_policy,        \* SyncManager._policy
    edge_queue,         \* SyncManager._queue: task_ids
    edge_completed,     \* SyncManager._completed: task_ids
    tasks,              \* the SyncTask objects queue_sync created, by task_id
    edge_last,          \* the last manager operation and whether it raised
    policy_replaced     \* whether update_policy installed a different policy

chain_vars == <<state, strategies, primaries, locals, caches, queues, call_counts>>

\* The fields of the orchestrator and the objects it refers to.
orchestrator_vars == <<default_conflict, queue, checksums, history, manual_conflicts, items>>

sync_vars == <<orchestrator_vars, sync_last>>

\* The fields of the edge sync manager, its tasks and what is observed of it.
edge_vars == <<edge_policy, edge_queue, edge_completed, tasks, edge_last,
               policy_replaced>>

\* What an operation of the fallback chain leaves alone.
beside_chain == <<sync_vars, threads, edge_vars>>

\* The fallback chain and what is observed of it.
fallback_vars == <<chain_vars, now, last, primed, completed, cache_writer, queued_log, registered>>

\* What an operation of the orchestrator leaves alone.
beside_sync == <<fallback_vars, threads, edge_vars>>

vars == <<state, strategies, primaries, locals, caches, queues, call_counts,
          now, last, primed, completed, cache_writer, queued_log, registered,
          default_conflict, queue, checksums, history, manual_conflicts, items,
          sync_last, threads,
          edge_policy, edge_queue, edge_completed, tasks, edge_last,
          policy_replaced>>

\* The instance as one value.
Self ==
    [state |-> state, strategies |-> strategies, primaries |-> primaries,
     locals |-> locals, caches |-> caches, queues |-> queues,
     call_counts |-> call_counts]

\* The instance after a method: every field is assigned from c.
Becomes(c) ==
    /\ state' = c.state
    /\ strategies' = c.strategies
    /\ primaries' = c.primaries
    /\ locals' = c.locals
    /\ caches' = c.caches
    /\ queues' = c.queues
    /\ call_counts' = c.call_counts

\* An operation as the caller saw it: its name, tool and arguments, the
\* results returned (Some(result) for call, a list for flush_queue), the exception
\* raised, the tiers entered, the calls flush_queue re-invoked, the clock.
Op(name, tool, a, results, raised, tried, replayed) ==
    [op |-> name, tool |-> tool, call |-> a, results |-> results,
     raised |-> raised, tried |-> tried, replayed |-> replayed, at |-> now]

\* The scenario "PRIMARY call, then set_state(OFFLINE), then a call with the
\* same arguments": stage 1 after a call returned PRIMARY, stage 2 when the
\* next operation was set_state(OFFLINE), stage 3 when the operation after
\* that was a call to the same tool with the same arguments.
NotPrimed == [stage |-> 0, tool |-> None, call |-> None, value |-> None, at |-> 0]

PrimedBy(op) ==
    IF /\ op.op = "call"
       /\ Len(op.results) = 1
       /\ op.results[1].outcome = PRIMARY
    THEN [stage |-> 1, tool |-> op.tool, call |-> op.call,
          value |-> op.results[1].value, at |-> op.at]
    ELSE NotPrimed

Follow(op) ==
    IF op.op = "tick" THEN primed
    ELSE IF primed.stage = 1 /\ op.op = "set_state" /\ state' = OFFLINE
    THEN [primed EXCEPT !.stage = 2]
    ELSE IF /\ primed.stage = 2
            /\ op.op = "call"
            /\ op.tool = primed.tool
            /\ SameArguments(op.call[1], primed.call[1])
    THEN [primed EXCEPT !.stage = 3]
    ELSE PrimedBy(op)

\* The orchestrator as one value.
SelfSync ==
    [default_conflict |-> default_conflict, queue |-> queue,
     checksums |-> checksums, history |-> history,
     manual_conflicts |-> manual_conflicts, items |-> items]

\* The orchestrator and the items after a method.
BecomesSync(o) ==
    /\ default_conflict' = o.default_conflict
    /\ queue' = o.queue
    /\ checksums' = o.checksums
    /\ history' = o.history
    /\ manual_conflicts' = o.manual_conflicts
    /\ items' = o.items

\* An orchestrator operation as the caller saw it: its name and arguments,
\* the results returned, the exception raised, the status assignments made
\* and the items processed, in order.
SyncOp(name, args, results, raised, writes, processed) ==
    [op |-> name, args |-> args, results |-> results, raised |-> raised,
     writes |-> writes, processed |-> processed]

\* The threads that call the orchestrator concurrently.
Threads == {1, 2}

\* A thread that has not called anything: the method it runs, the statement
\* it is at, its arguments and local variables, what it returned or raised.
Idle ==
    [pc |-> "idle", op |-> "none", item_id |-> 0, chosen_value |-> None,
     flagged |-> FALSE, conflicted |-> None, pending |-> <<>>, item |-> None,
     last_checksum |-> NoChecksum, result |-> None, results |-> <<>>,
     processed |-> <<>>, raised |-> None]

\* SyncOrchestrator.__init__
InitOrchestrator(defaults) ==
    /\ default_conflict \in defaults
    /\ queue = <<>>
    /\ checksums = <<>>
    /\ history = <<>>
    /\ manual_conflicts = <<>>
    /\ items = <<>>
    /\ sync_last = SyncOp("init", <<>>, <<>>, None, <<>>, <<>>)
    /\ threads = [t \in Threads |-> Idle]

\* OfflineFallbackChain.__init__
InitChain(states) ==
    /\ state \in states
    /\ strategies = <<>>
    /\ primaries = <<>>
    /\ locals = <<>>
    /\ caches = <<>>
    /\ queues = <<>>
    /\ call_counts = <<>>
    /\ now = 0
    /\ last = Op("init", None, None, None, None, <<>>, <<>>)
    /\ queued_log = <<>>
    /\ primed = NotPrimed
    /\ completed = <<>>
    /\ cache_writer = <<>>
    /\ registered = <<>>

\* The manager m the fields make up.
SelfEdge ==
    [policy |-> edge_policy, queue |-> edge_queue, completed |-> edge_completed,
     tasks |-> tasks]

\* The fields become those of m.
BecomesEdge(m) ==
    /\ edge_policy' = m.policy
    /\ edge_queue' = m.queue
    /\ edge_completed' = m.completed
    /\ tasks' = m.tasks

\* The last manager operation and whether it raised.
EdgeOp(name, raised) == [op |-> name, raised |-> raised]

\* SyncManager.__init__
InitManager(policies) ==
    /\ edge_policy \in policies
    /\ edge_queue = <<>>
    /\ edge_completed = <<>>
    /\ tasks = <<>>
    /\ edge_last = EdgeOp("init", None)
    /\ policy_replaced = FALSE

\* A chain in either connectivity state, an orchestrator and a manager with
\* the default policies of their constructors.
Init == InitChain(OnlineState) /\ InitOrchestrator({LAST_WRITE_WINS}) /\ InitManager({DefaultPolicy})

\* A chain as its constructor makes it by default and an orchestrator with
\* either an automatic or the manual default policy.
InitSync == InitChain({ONLINE}) /\ InitOrchestrator({LAST_WRITE_WINS, MANUAL}) /\ InitManager({DefaultPolicy})

\* ------------------------------------------------------------------------
\* Actions: the public methods
\* ------------------------------------------------------------------------

\* register_tool(strategy, primary, local_alt)
RegisterTool(strategy, primary, local_alt) ==
    /\ \E c \in {register_tool(Self, strategy, primary, local_alt)} : Becomes(c)
    /\ completed' = DictSet(completed, strategy.tool_name, 0)
    /\ last' = Op("register_tool", Some(strategy.tool_name), None, None,
                  None, <<>>, <<>>)
    /\ UNCHANGED now

\* set_state(new_state)
SetState(new_state) ==
    /\ Becomes(set_state(Self, new_state))
    /\ last' = Op("set_state", None, None, None, None, <<>>, <<>>)
    /\ UNCHANGED <<now, completed>>

\* The calls counted for a tool: the sum of its counters (0 for a tool the
\* chain does not know).
Calls(tool_name) ==
    IF tool_name \in DOMAIN call_counts
    THEN call_counts[tool_name][PRIMARY] + call_counts[tool_name][CACHED]
         + call_counts[tool_name][LOCAL_OUT] + call_counts[tool_name][QUEUED]
         + call_counts[tool_name][FAILED]
    ELSE 0

\* call(tool_name, *args, **kwargs)
Call(tool_name, a, env) ==
    /\ \E r \in {call(Self, tool_name, a, env, now)} :
       /\ Becomes(r.chain)
       /\ last' = Op("call", Some(tool_name), Some(a), r.result, r.raised,
                     r.tried, <<>>)
       /\ completed' = IF r.result # None /\ tool_name \in DOMAIN completed
                       THEN [completed EXCEPT ![tool_name] = @ + 1]
                       ELSE completed
    /\ UNCHANGED now

\* flush_queue(tool_name)
FlushQueue(tool_name, envs) ==
    /\ Len(envs) = get_queue_size(Self, tool_name)
    /\ \E r \in {flush_queue(Self, tool_name, envs, now)} :
       /\ Becomes(r.chain)
       /\ last' = Op("flush_queue", Some(tool_name), None, r.results, r.raised,
                     <<>>, r.replayed)
       /\ completed' = IF tool_name \in DOMAIN completed
                       THEN [completed EXCEPT ![tool_name] = @ + Len(r.results)]
                       ELSE completed
    /\ UNCHANGED now

\* get_queue_size(tool_name): reads the queue and writes nothing.
GetQueueSize(tool_name) ==
    /\ Becomes(Self)
    /\ last' = Op("get_queue_size", Some(tool_name), None,
                  Some(get_queue_size(Self, tool_name)), None, <<>>, <<>>)
    /\ UNCHANGED <<now, completed>>

\* get_call_stats(tool_name): reads the counters and writes nothing.
GetCallStats(tool_name) ==
    /\ Becomes(Self)
    /\ last' = Op("get_call_stats", Some(tool_name), None,
                  Some(get_call_stats(Self, tool_name)), None, <<>>, <<>>)
    /\ UNCHANGED <<now, completed>>

\* Time passes between two operations.
Tick ==
    /\ now' = now + 1
    /\ last' = [Op("tick", None, None, None, None, <<>>, <<>>) EXCEPT !.at = now']
    /\ UNCHANGED <<chain_vars, completed>>

\* ------------------------------------------------------------------------
\* Observers: what a step adds to primed, cache_writer and queued_log, read
\* from the operation it leaves in last.  A specification runs the observers
\* its properties read and leaves the others at their initial value.
\* ------------------------------------------------------------------------

\* cache_writer after one call: a result of outcome PRIMARY of a tool whose
\* strategy enables the cache was stored under the call's cache key.
WriterAfter(w, c, tool_name, a, result) ==
    IF /\ result.outcome = PRIMARY
       /\ tool_name \in DOMAIN c.strategies
       /\ c.strategies[tool_name].enable_cache
    THEN DictSet(w, <<tool_name, make_cache_key(a.args, a.kwargs)>>,
                 [call |-> a, value |-> result.value[1]])
    ELSE w

RECURSIVE WriterAfterAll(_, _, _, _, _)
\* cache_writer after the replayed calls of a flush_queue.
WriterAfterAll(w, c, tool_name, replayed, results) ==
    IF Len(results) = 0 THEN w
    ELSE WriterAfterAll(WriterAfter(w, c, tool_name, replayed[1], results[1]),
                        c, tool_name, Tail(replayed), Tail(results))

\* cache_writer after the step.
WriterNext ==
    IF last'.op = "register_tool"
    THEN [k \in {j \in DOMAIN cache_writer : j[1] # last'.tool[1]} |-> cache_writer[k]]
    ELSE IF last'.op = "call" /\ last'.results # None
    THEN WriterAfter(cache_writer, Self, last'.tool[1], last'.call[1], last'.results[1])
    ELSE IF last'.op = "flush_queue"
    THEN WriterAfterAll(cache_writer, Self, last'.tool[1], last'.replayed, last'.results)
    ELSE cache_writer

RECURSIVE QueuedAmong(_, _)
\* The calls among replayed whose result has outcome QUEUED, in order.
QueuedAmong(replayed, results) ==
    IF Len(results) = 0 THEN <<>>
    ELSE (IF results[1].outcome = QUEUED THEN <<replayed[1]>> ELSE <<>>)
         \o QueuedAmong(Tail(replayed), Tail(results))

\* queued_log after the step.
QueuedLogNext ==
    LET tool_name == last'.tool[1]
    IN  IF last'.op = "register_tool"
        THEN DictSet(queued_log, tool_name,
                     [calls |-> <<>>, offline |-> TRUE, flushed_offline |-> FALSE])
        ELSE IF /\ last'.op = "call"
                /\ last'.results # None
                /\ last'.results[1].outcome = QUEUED
        THEN [queued_log EXCEPT ![tool_name] =
                [@ EXCEPT !.calls = Append(@, last'.call[1]),
                          !.offline = @ /\ state = OFFLINE]]
        ELSE IF last'.op = "flush_queue" /\ tool_name \in DOMAIN queued_log
        THEN [queued_log EXCEPT ![tool_name] =
                [calls |-> QueuedAmong(last'.replayed, last'.results),
                 offline |-> QueuedAmong(last'.replayed, last'.results) = <<>>
                             \/ state = OFFLINE,
                 flushed_offline |-> @.offline]]
        ELSE queued_log

WatchNone == UNCHANGED <<primed, cache_writer, queued_log, registered, beside_chain>>

WatchCache ==
    /\ primed' = Follow(last')
    /\ cache_writer' = WriterNext
    /\ UNCHANGED <<queued_log, registered, beside_chain>>

WatchQueue ==
    /\ queued_log' = QueuedLogNext
    /\ UNCHANGED <<primed, cache_writer, registered, beside_chain>>

\* The arguments of a registration, kept for the tool.
WatchRegistration(strategy, primary, local_alt) ==
    /\ registered' = DictSet(registered, strategy.tool_name,
                             [strategy |-> strategy, primary |-> primary,
                              local_alt |-> local_alt])
    /\ UNCHANGED <<primed, cache_writer, queued_log, beside_chain>>

\* ------------------------------------------------------------------------
\* Actions: the public methods of the orchestrator
\* ------------------------------------------------------------------------

\* The caller's objects with these SyncItem among them.
WithItems(o, batch) ==
    [o EXCEPT !.items =
        [id \in DOMAIN o.items \cup {batch[i].item_id : i \in 1..Len(batch)} |->
            IF \E i \in 1..Len(batch) : batch[i].item_id = id
            THEN batch[CHOOSE i \in 1..Len(batch) : batch[i].item_id = id]
            ELSE o.items[id]]]

\* enqueue(item): item is a new SyncItem or one of the caller's objects.
Enqueue(item) ==
    /\ BecomesSync(enqueue(WithItems(SelfSync, <<item>>), item.item_id))
    /\ sync_last' = SyncOp("enqueue", <<item.item_id>>, <<>>, None, <<>>, <<>>)
    /\ UNCHANGED beside_sync

\* enqueue_batch(items)
EnqueueBatch(batch) ==
    /\ BecomesSync(enqueue_batch(WithItems(SelfSync, batch),
                                 [i \in 1..Len(batch) |-> batch[i].item_id]))
    /\ sync_last' = SyncOp("enqueue_batch",
                           [i \in 1..Len(batch) |-> batch[i].item_id],
                           <<>>, None, <<>>, <<>>)
    /\ UNCHANGED beside_sync

\* sync_all()
SyncAll ==
    /\ \E r \in {sync_all(SelfSync, now)} :
         /\ BecomesSync(r.orc)
         /\ sync_last' = SyncOp("sync_all", <<>>, r.results, r.raised, r.writes,
                                r.processed)
    /\ UNCHANGED beside_sync

\* sync_priority(priority)
SyncPriorityLevel(priority) ==
    /\ \E r \in {sync_priority(SelfSync, priority, now)} :
         /\ BecomesSync(r.orc)
         /\ sync_last' = SyncOp("sync_priority", <<priority>>, r.results, r.raised,
                                r.writes, r.processed)
    /\ UNCHANGED beside_sync

\* resolve_manual_conflict(item_id, chosen_value)
ResolveManualConflict(item_id, chosen_value) ==
    /\ \E r \in {resolve_manual_conflict(SelfSync, item_id, chosen_value, now)} :
         /\ BecomesSync(r.orc)
         /\ sync_last' = SyncOp("resolve_manual_conflict", <<item_id, chosen_value>>,
                                r.results, r.raised, r.writes, r.processed)
    /\ UNCHANGED beside_sync

\* The item_id of the next object the caller creates.
NewId == Cardinality(DOMAIN items) + 1

\* ------------------------------------------------------------------------
\* The methods of the orchestrator run by concurrent threads, one statement
\* at a time.  The class takes no lock: between two statements of one thread
\* the other thread may run.
\* ------------------------------------------------------------------------

\* One statement of thread t: its local variables become rec and the
\* orchestrator becomes o.
Statement(t, rec, o) ==
    /\ threads' = [threads EXCEPT ![t] = rec]
    /\ BecomesSync(o)
    /\ UNCHANGED <<fallback_vars, sync_last, edge_vars>>

\* Thread t calls resolve_manual_conflict(item_id, chosen_value).
ResolveBegin(t, item_id, chosen_value) ==
    /\ threads[t].pc = "idle"
    /\ Statement(t, [Idle EXCEPT !.pc = "find", !.op = "resolve_manual_conflict",
                                 !.item_id = item_id, !.chosen_value = Some(chosen_value),
                                 !.flagged = \E i \in DOMAIN manual_conflicts :
                                                items[manual_conflicts[i]].item_id = item_id],
                 SelfSync)

\* conflicted = next((i for i in self._manual_conflicts if ...), None);
\* raise KeyError if it is None.
ResolveFind(t) ==
    /\ threads[t].pc = "find"
    /\ \E found \in {SelectSeq(manual_conflicts,
                                LAMBDA ref : items[ref].item_id = threads[t].item_id)} :
         IF Len(found) = 0
         THEN Statement(t, [threads[t] EXCEPT !.pc = "done", !.raised = Some("KeyError")],
                        SelfSync)
         ELSE Statement(t, [threads[t] EXCEPT !.pc = "remove", !.conflicted = Some(found[1])],
                        SelfSync)

\* self._manual_conflicts.remove(conflicted): list.remove raises ValueError
\* when the element is not in the list.
ResolveRemove(t) ==
    /\ threads[t].pc = "remove"
    /\ IF \E i \in DOMAIN manual_conflicts : manual_conflicts[i] = threads[t].conflicted[1]
       THEN Statement(t, [threads[t] EXCEPT !.pc = "checksum"],
                      [SelfSync EXCEPT !.manual_conflicts =
                            RemoveFirst(@, threads[t].conflicted[1])])
       ELSE Statement(t, [threads[t] EXCEPT !.pc = "done", !.raised = Some("ValueError")],
                      SelfSync)

\* self._checksums[conflicted.key] = SyncItem._compute_checksum(chosen_value)
ResolveChecksum(t) ==
    /\ threads[t].pc = "checksum"
    /\ Statement(t, [threads[t] EXCEPT !.pc = "status"],
                 [SelfSync EXCEPT !.checksums =
                    DictSet(@, items[threads[t].conflicted[1]].key,
                            compute_checksum(threads[t].chosen_value[1]))])

\* conflicted.status = SyncStatus.SYNCED
ResolveStatus(t) ==
    /\ threads[t].pc = "status"
    /\ Statement(t, [threads[t] EXCEPT !.pc = "log"],
                 set_status(SelfSync, threads[t].conflicted[1], SYNCED))

\* self._history.append(result); return result
ResolveLog(t) ==
    /\ threads[t].pc = "log"
    /\ threads[t].op = "resolve_manual_conflict"
    /\ \E result \in {SyncResult(threads[t].item_id, items[threads[t].conflicted[1]].key,
                                  SYNCED, threads[t].chosen_value, now)} :
         Statement(t, [threads[t] EXCEPT !.pc = "done", !.results = <<result>>],
                   [SelfSync EXCEPT !.history = Append(@, result)])

\* Thread t calls sync_all: the for loop evaluates get_pending() once.
SyncAllBegin(t) ==
    /\ threads[t].pc = "idle"
    /\ Statement(t, [Idle EXCEPT !.pc = "next", !.op = "sync_all",
                                 !.pending = get_pending(SelfSync)],
                 SelfSync)

\* The next iteration of the loop, and in _sync_item the statements
\* item.status = IN_FLIGHT and last_checksum = self._checksums.get(item.key, "");
\* sync_all returns when the list is exhausted.
SyncAllNext(t) ==
    /\ threads[t].pc = "next"
    /\ IF threads[t].pending = <<>>
       THEN Statement(t, [threads[t] EXCEPT !.pc = "done"], SelfSync)
       ELSE \E ref \in {threads[t].pending[1]} :
              Statement(t, [threads[t] EXCEPT
                                !.pc = "rest", !.item = Some(ref),
                                !.pending = Tail(@),
                                !.last_checksum = IF items[ref].key \in DOMAIN checksums
                                                  THEN checksums[items[ref].key]
                                                  ELSE NoChecksum],
                        set_status(SelfSync, ref, IN_FLIGHT))

\* The orchestrator as _sync_item sees it after it has read last_checksum.
WithChecksumRead(o, key, last_checksum) ==
    [o EXCEPT !.checksums =
        IF last_checksum = NoChecksum
        THEN [k \in DOMAIN o.checksums \ {key} |-> o.checksums[k]]
        ELSE DictSet(o.checksums, key, last_checksum)]

\* The rest of _sync_item: the delta test against the last_checksum read
\* before, conflict handling and the acceptance of the value.  Of the
\* checksums only the one of the item's key is assigned, when the result is
\* SYNCED.
SyncAllRest(t) ==
    /\ threads[t].pc = "rest"
    /\ \E ref \in {threads[t].item[1]} :
       \E r \in {sync_item(WithChecksumRead(SelfSync, items[ref].key,
                                             threads[t].last_checksum), ref, now)} :
         Statement(t, [threads[t] EXCEPT !.pc = "log", !.result = r.result],
                   [r.orc EXCEPT !.checksums =
                        IF r.result[1].status = SYNCED
                        THEN DictSet(checksums, items[ref].key,
                                     r.orc.checksums[items[ref].key])
                        ELSE checksums])

\* results.append(result); self._history.append(result)
SyncAllLog(t) ==
    /\ threads[t].pc = "log"
    /\ threads[t].op = "sync_all"
    /\ Statement(t, [threads[t] EXCEPT !.pc = "next",
                                       !.results = Append(@, threads[t].result[1]),
                                       !.processed = Append(@, threads[t].item[1])],
                 [SelfSync EXCEPT !.history = Append(@, threads[t].result[1])])

\* The behaviours of the callables during a flush_queue of the tool: one
\* environment per queued call.
EnvSeqs(tool_name, envs) == [1..get_queue_size(Self, tool_name) -> envs]

LocalAlts == {Some(f) : f \in LocalFns} \cup {None}

\* ------------------------------------------------------------------------
\* Spec: the tier cascade.  Every strategy, with and without a local_alt;
\* two different calls; the primary returns one value.  A tool is registered
\* once.
\* ------------------------------------------------------------------------

CascadeArgs == {CallInt, CallReqA}

CascadeEnvs == EnvsOf(OneValue)

Next ==
    \/ /\ strategies = <<>>
       /\ \E strategy \in FallbackStrategy, primary \in PrimaryFns, local_alt \in LocalAlts :
            RegisterTool(strategy, primary, local_alt) /\ WatchNone
    \/ \E new_state \in OnlineState : SetState(new_state) /\ WatchNone
    \/ \E tool_name \in Tools, a \in CascadeArgs, env \in CascadeEnvs :
            /\ Calls(tool_name) < MaxCalls
            /\ Call(tool_name, a, env)
            /\ WatchNone
    \/ \E tool_name \in Tools : \E envs \in EnvSeqs(tool_name, CascadeEnvs) :
            /\ Calls(tool_name) + Len(envs) <= MaxCalls
            /\ FlushQueue(tool_name, envs)
            /\ WatchNone
    \/ now < MaxTime /\ Tick /\ WatchNone

Spec == Init /\ [][Next]_vars

\* ------------------------------------------------------------------------
\* SpecCache: the response cache.  Strategies with the cache tier and without
\* the local tier; every call of CallArgs; the primary returns two values.
\* ------------------------------------------------------------------------

CacheStrategies ==
    {s \in FallbackStrategy : s.enable_cache /\ ~s.enable_local}

NextCache ==
    \/ /\ strategies = <<>>
       /\ \E strategy \in CacheStrategies, primary \in PrimaryFns :
            RegisterTool(strategy, primary, None) /\ WatchCache
    \/ \E new_state \in OnlineState : SetState(new_state) /\ WatchCache
    \/ \E tool_name \in Registrable, a \in CallArgs, env \in Envs :
            /\ Calls(tool_name) < MaxCalls
            /\ Call(tool_name, a, env)
            /\ WatchCache
    \/ now < MaxTime /\ Tick /\ WatchCache

SpecCache == Init /\ [][NextCache]_vars

\* ------------------------------------------------------------------------
\* SpecQueue: the call queue and its replay.  Strategies with the queue tier
\* and without the cache tier, a local_alt registered; three different calls.
\* ------------------------------------------------------------------------

QueueStrategies ==
    {s \in FallbackStrategy : s.enable_queue /\ ~s.enable_cache}

QueueArgs == {CallInt, CallKwXY, CallReqA}

NextQueue ==
    \/ /\ strategies = <<>>
       /\ \E strategy \in QueueStrategies, primary \in PrimaryFns, local_alt \in LocalFns :
            RegisterTool(strategy, primary, Some(local_alt)) /\ WatchQueue
    \/ \E new_state \in OnlineState : SetState(new_state) /\ WatchQueue
    \/ \E tool_name \in Registrable, a \in QueueArgs, env \in Envs :
            /\ Calls(tool_name) < MaxQueueCalls
            /\ Call(tool_name, a, env)
            /\ WatchQueue
    \/ \E tool_name \in Registrable : \E envs \in EnvSeqs(tool_name, Envs) :
            /\ Calls(tool_name) + Len(envs) <= MaxQueueCalls
            /\ FlushQueue(tool_name, envs)
            /\ WatchQueue

SpecQueue == Init /\ [][NextQueue]_vars

\* ------------------------------------------------------------------------
\* SpecBound: the capacity of the call queue.  Strategies with the queue tier
\* only and a max_queue_size of 0, 1 or MaxQueue; more calls than the queue
\* holds.
\* ------------------------------------------------------------------------

\* Calls to a tool in SpecBound.
MaxBoundCalls == 3

BoundStrategies ==
    [tool_name : Registrable, enable_cache : {FALSE}, enable_local : {FALSE},
     enable_queue : {TRUE}, cache_ttl_seconds : CacheTtls,
     max_queue_size : {0, 1, MaxQueue}]

NextBound ==
    \/ /\ strategies = <<>>
       /\ \E strategy \in BoundStrategies, primary \in PrimaryFns :
            RegisterTool(strategy, primary, None) /\ WatchNone
    \/ \E new_state \in OnlineState : SetState(new_state) /\ WatchNone
    \/ \E tool_name \in Registrable, a \in QueueArgs, env \in CascadeEnvs :
            /\ Calls(tool_name) < MaxBoundCalls
            /\ Call(tool_name, a, env)
            /\ WatchNone
    \/ \E tool_name \in Registrable : \E envs \in EnvSeqs(tool_name, CascadeEnvs) :
            /\ Calls(tool_name) + Len(envs) <= MaxBoundCalls
            /\ FlushQueue(tool_name, envs)
            /\ WatchNone

SpecBound == Init /\ [][NextBound]_vars

\* ------------------------------------------------------------------------
\* SpecTools: two tools on one chain.  Each tool is registered once, with the
\* cache and queue tiers and no local_alt; the same call is made to both
\* and the primary returns two values.
\* ------------------------------------------------------------------------

\* Calls to a tool in SpecTools.
MaxToolCalls == 2

ToolStrategies ==
    [tool_name : Tools, enable_cache : {TRUE}, enable_local : {FALSE},
     enable_queue : {TRUE}, cache_ttl_seconds : CacheTtls,
     max_queue_size : QueueSizes]

ToolArgs == {CallInt}

ToolEnvs == {env \in Envs : env.local = None}

NextTools ==
    \/ \E strategy \in ToolStrategies, primary \in PrimaryFns :
            /\ strategy.tool_name \notin DOMAIN strategies
            /\ RegisterTool(strategy, primary, None)
            /\ WatchNone
    \/ \E new_state \in OnlineState : SetState(new_state) /\ WatchNone
    \/ \E tool_name \in Tools, a \in ToolArgs, env \in ToolEnvs :
            /\ tool_name \in DOMAIN strategies
            /\ Calls(tool_name) < MaxToolCalls
            /\ Call(tool_name, a, env)
            /\ WatchNone
    \/ \E tool_name \in Tools : \E envs \in EnvSeqs(tool_name, ToolEnvs) :
            /\ tool_name \in DOMAIN strategies
            /\ Calls(tool_name) + Len(envs) <= MaxToolCalls
            /\ FlushQueue(tool_name, envs)
            /\ WatchNone

SpecTools == Init /\ [][NextTools]_vars

\* ------------------------------------------------------------------------
\* SpecRegister: registering a tool again.  A tool is registered any number
\* of times, with either of two primaries, with or without a local_alt,
\* with and without the cache and local tiers and with a queue of one or
\* MaxQueue calls; calls are counted from the latest registration.
\* ------------------------------------------------------------------------

RegisterStrategies ==
    [tool_name : Registrable, enable_cache : BOOLEAN, enable_local : BOOLEAN,
     enable_queue : {TRUE}, cache_ttl_seconds : CacheTtls,
     max_queue_size : {1, MaxQueue}]

RegisterPrimaries == {"primary_fn", "other_primary_fn"}

NextRegister ==
    \/ \E strategy \in RegisterStrategies, primary \in RegisterPrimaries, local_alt \in LocalAlts :
            /\ RegisterTool(strategy, primary, local_alt)
            /\ WatchRegistration(strategy, primary, local_alt)
    \/ \E new_state \in OnlineState : SetState(new_state) /\ WatchNone
    \/ \E tool_name \in Registrable, a \in {CallInt}, env \in CascadeEnvs :
            /\ Calls(tool_name) < MaxCalls
            /\ Call(tool_name, a, env)
            /\ WatchNone
    \/ \E tool_name \in Registrable : \E envs \in EnvSeqs(tool_name, CascadeEnvs) :
            /\ Calls(tool_name) + Len(envs) <= MaxCalls
            /\ FlushQueue(tool_name, envs)
            /\ WatchNone

SpecRegister == Init /\ [][NextRegister]_vars

\* ------------------------------------------------------------------------
\* SpecUnknown: operations on a tool that was never registered.  One tool is
\* registered, with the queue tier and without the cache; every public
\* operation is invoked on it and on an identifier the chain does not know.
\* ------------------------------------------------------------------------

NextUnknown ==
    \/ /\ strategies = <<>>
       /\ \E strategy \in QueueStrategies, primary \in PrimaryFns, local_alt \in LocalAlts :
            RegisterTool(strategy, primary, local_alt) /\ WatchNone
    \/ \E new_state \in OnlineState : SetState(new_state) /\ WatchNone
    \/ \E tool_name \in Tools, a \in CascadeArgs, env \in CascadeEnvs :
            /\ Calls(tool_name) < MaxCalls
            /\ Call(tool_name, a, env)
            /\ WatchNone
    \/ \E tool_name \in Tools : \E envs \in EnvSeqs(tool_name, CascadeEnvs) :
            /\ Calls(tool_name) + Len(envs) <= MaxCalls
            /\ FlushQueue(tool_name, envs)
            /\ WatchNone
    \/ \E tool_name \in Tools : GetQueueSize(tool_name) /\ WatchNone
    \/ \E tool_name \in Tools : GetCallStats(tool_name) /\ WatchNone

SpecUnknown == Init /\ [][NextUnknown]_vars

\* Delta sync: items of one key whose values are an int, the str of the same
\* text and another int, with or without a diverging, later remote value.

\* Items enqueued in SpecDelta.
MaxDeltaItems == 3

DeltaItems ==
    {SyncItem(NewId, "K", local_value, NORMAL, remote[1], 1, remote[2], REMOTE_WINS) :
        local_value \in {PyInt1, PyStr1, PyInt2},
        remote \in {<<None, None>>, <<Some(PyInt2), Some(2)>>}}

NextDelta ==
    \/ /\ NewId <= MaxDeltaItems
       /\ \E item \in DeltaItems : Enqueue(item)
    \/ /\ get_pending(SelfSync) # <<>>
       /\ SyncAll

SpecDelta == InitSync /\ [][NextDelta]_vars

\* Priorities: items of every priority, enqueued one by one or two at a time
\* in any order, synced all together or one priority at a time.

\* Items enqueued in SpecOrder.
MaxOrderItems == 3

OrderItem(item_id, priority) ==
    SyncItem(item_id, "K", PyInt1, priority, None, 1, None, LAST_WRITE_WINS)

NextOrder ==
    \/ /\ NewId <= MaxOrderItems
       /\ \E priority \in SyncPriority : Enqueue(OrderItem(NewId, priority))
    \/ /\ NewId + 1 <= MaxOrderItems
       /\ \E first \in SyncPriority, second \in SyncPriority :
            EnqueueBatch(<<OrderItem(NewId, first), OrderItem(NewId + 1, second)>>)
    \/ /\ get_pending(SelfSync) # <<>>
       /\ SyncAll
    \/ \E priority \in SyncPriority :
            /\ \E i \in 1..Len(queue) : /\ items[queue[i]].status = PENDING
                                         /\ items[queue[i]].priority = priority
            /\ SyncPriorityLevel(priority)

SpecOrder == InitSync /\ [][NextOrder]_vars

\* Conflicts: an item with local value 1 modified at time 1 and every
\* combination of a remote value (absent, the same int, the str of the same
\* text, another int), a remote timestamp (absent, earlier, equal, later) and
\* a policy (the four strategies, or unset).

\* Items enqueued in SpecConflict.
MaxConflictItems == 1

RemoteValues == {None, Some(PyInt1), Some(PyStr1), Some(PyInt2)}

RemoteTimes == {None, Some(0), Some(1), Some(2)}

ConflictItems ==
    {SyncItem(NewId, "K", PyInt1, NORMAL, remote_value, 1, remote_modified_at,
              conflict_resolution) :
        remote_value \in RemoteValues, remote_modified_at \in RemoteTimes,
        conflict_resolution \in ConflictResolution \cup {Unset}}

NextConflict ==
    \/ /\ NewId <= MaxConflictItems
       /\ \E item \in ConflictItems : Enqueue(item)
    \/ /\ get_pending(SelfSync) # <<>>
       /\ SyncAll

SpecConflict == InitSync /\ [][NextConflict]_vars

\* Lifecycle: items of one key with a MANUAL or an unset policy, without a
\* remote value, with a diverging later one or with the str of the local
\* int at the same time; the caller may enqueue an object again, sync, and
\* resolve any id with either value.

\* Objects created in SpecLifecycle.
MaxLifeItems == 2

\* Entries of the queue in SpecLifecycle.
MaxLifeQueue == 3

LifeItem(item_id, remote, conflict_resolution) ==
    SyncItem(item_id, "K", PyInt1, NORMAL, remote[1], 1, remote[2], conflict_resolution)

LifeRemotes == {<<None, None>>, <<Some(PyInt2), Some(2)>>, <<Some(PyStr1), Some(1)>>}

LifePolicies == {MANUAL, Unset}

NextLifecycle ==
    \/ /\ NewId <= MaxLifeItems /\ Len(queue) < MaxLifeQueue
       /\ \E remote \in LifeRemotes, conflict_resolution \in LifePolicies :
            Enqueue(LifeItem(NewId, remote, conflict_resolution))
    \/ /\ Len(queue) < MaxLifeQueue
       /\ \E item_id \in DOMAIN items : Enqueue(items[item_id])
    \/ /\ NewId + 1 <= MaxLifeItems /\ Len(queue) + 1 < MaxLifeQueue
       /\ \E remote \in LifeRemotes :
            EnqueueBatch(<<LifeItem(NewId, remote, MANUAL),
                           LifeItem(NewId + 1, <<None, None>>, Unset)>>)
    \/ SyncAll
    \/ SyncPriorityLevel(NORMAL)
    \/ \E item_id \in 1..MaxLifeItems, chosen_value \in {PyInt1, PyInt2} :
            ResolveManualConflict(item_id, chosen_value)

SpecLifecycle == InitSync /\ [][NextLifecycle]_vars

\* Fingerprints: items of one key whose local value is one of two ints, with
\* no remote value or with the other int as an earlier or a later remote
\* value, under each of the four policies; any id may be resolved with
\* either value.

\* Items enqueued in SpecFingerprint.
MaxPrintItems == 2

PrintItems ==
    {SyncItem(NewId, "K", values[1], NORMAL, remote[1], 1, remote[2], conflict_resolution) :
        values \in {<<PyInt1, PyInt2>>, <<PyInt2, PyInt1>>},
        remote \in {<<None, None>>},
        conflict_resolution \in {LAST_WRITE_WINS}}
    \cup
    {SyncItem(NewId, "K", values[1], NORMAL, Some(values[2]), 1, Some(remote_modified_at),
              conflict_resolution) :
        values \in {<<PyInt1, PyInt2>>, <<PyInt2, PyInt1>>},
        remote_modified_at \in {2},
        conflict_resolution \in ConflictResolution}

NextFingerprint ==
    \/ /\ NewId <= MaxPrintItems
       /\ \E item \in PrintItems : Enqueue(item)
    \/ SyncAll
    \/ \E item_id \in 1..MaxPrintItems, chosen_value \in {PyInt1, PyInt2} :
            ResolveManualConflict(item_id, chosen_value)

SpecFingerprint == InitSync /\ [][NextFingerprint]_vars

\* ------------------------------------------------------------------------
\* SpecStatus: the statuses of items under every kind of policy.  Items of
\* one key without a remote value or with a later, different remote value,
\* whose policy is MANUAL, unset
\* (the default of the orchestrator) or none of the four strategies;
\* an item may be enqueued again.
\* ------------------------------------------------------------------------

\* Items created in SpecStatus.
MaxStatusItems == 2

\* A policy that is not a member of ConflictResolution.
OtherPolicy == "merge"

StatusPolicies == {MANUAL, OtherPolicy, Unset}

StatusRemotes == {<<None, None>>, <<Some(PyInt2), Some(2)>>}

NextStatus ==
    \/ /\ NewId <= MaxStatusItems /\ Len(queue) < MaxLifeQueue
       /\ \E remote \in StatusRemotes, conflict_resolution \in StatusPolicies :
            Enqueue(LifeItem(NewId, remote, conflict_resolution))
    \/ /\ Len(queue) < MaxLifeQueue
       /\ \E item_id \in DOMAIN items : Enqueue(items[item_id])
    \/ SyncAll
    \/ SyncPriorityLevel(NORMAL)
    \/ \E item_id \in 1..MaxStatusItems, chosen_value \in {PyInt1, PyInt2} :
            ResolveManualConflict(item_id, chosen_value)

SpecStatus == InitSync /\ [][NextStatus]_vars

\* ------------------------------------------------------------------------
\* SpecAtomic: concurrent calls.  Items of one key are enqueued and synced
\* by a single caller, no item twice; then thread 1 calls
\* resolve_manual_conflict or sync_all and thread 2 calls
\* resolve_manual_conflict, their statements interleaved in every order.
\* ------------------------------------------------------------------------

\* Items created in SpecAtomic.
MaxAtomicItems == 2

\* No thread has called anything yet.
AllIdle == \A t \in Threads : threads[t].pc = "idle"

NextAtomic ==
    \/ /\ AllIdle /\ NewId <= MaxAtomicItems
       /\ \E remote \in StatusRemotes, conflict_resolution \in LifePolicies :
            Enqueue(LifeItem(NewId, remote, conflict_resolution))
    \/ AllIdle /\ SyncAll
    \/ \E t \in Threads, item_id \in 1..MaxAtomicItems, chosen_value \in {PyInt1, PyInt2} :
            ResolveBegin(t, item_id, chosen_value)
    \/ \E t \in Threads : ResolveFind(t)
    \/ \E t \in Threads : ResolveRemove(t)
    \/ \E t \in Threads : ResolveChecksum(t)
    \/ \E t \in Threads : ResolveStatus(t)
    \/ \E t \in Threads : ResolveLog(t)
    \/ SyncAllBegin(1)
    \/ SyncAllNext(1)
    \/ SyncAllRest(1)
    \/ SyncAllLog(1)

SpecAtomic == InitSync /\ [][NextAtomic]_vars

\* ------------------------------------------------------------------------
\* Actions: the public methods of the edge sync manager
\* ------------------------------------------------------------------------

\* What an operation of the manager leaves alone.
beside_edge == <<fallback_vars, sync_vars, threads>>

\* The task_id of the next task: a fresh one.
NewTaskId == Cardinality(DOMAIN tasks) + 1

\* The PENDING tasks.
PendingTasks == {id \in DOMAIN tasks : tasks[id].status = PENDING}

UpdatePolicy(policy) ==
    /\ BecomesEdge([SelfEdge EXCEPT !.policy = policy])
    /\ edge_last' = EdgeOp("update_policy", None)
    /\ policy_replaced' = (policy_replaced \/ policy # edge_policy)
    /\ UNCHANGED beside_edge

QueueSync(sync_type, priority) ==
    \E r \in {queue_sync(SelfEdge, NewTaskId, sync_type, priority)} :
        /\ BecomesEdge(r.mgr)
        /\ edge_last' = EdgeOp("queue_sync", r.raised)
        /\ UNCHANGED <<policy_replaced, beside_edge>>

ProcessQueue(current_hour, processor) ==
    \E r \in {process_queue(SelfEdge, current_hour, processor)} :
        /\ BecomesEdge(r.mgr)
        /\ edge_last' = EdgeOp("process_queue", r.raised)
        /\ UNCHANGED <<policy_replaced, beside_edge>>

\* ------------------------------------------------------------------------
\* SpecEdge: the edge sync manager under policies that allow no, one or
\* several attempts, with and without a sync window and a list of allowed
\* types; tasks of two types and two priorities; processors that succeed,
\* fail or raise on each task.
\* ------------------------------------------------------------------------

\* Tasks created in SpecEdge.
MaxTasks == 2

\* The largest max_retry_attempts of a policy in SpecEdge.
MaxRetryAttempts == 2

\* The UTC hours at which process_queue is called.
Hours == {0, 1, 2}

EdgePolicies ==
    {SyncPolicy(0, -1, -1, <<>>),
     SyncPolicy(1, 1, 1, <<"model_update">>),
     SyncPolicy(MaxRetryAttempts, 2, 0, <<"model_update">>)}

SyncTypes == {"model_update", "telemetry"}

EdgePriorities == {"critical", "normal"}

\* No processor, or one with an outcome for each pending task.
Processors == {None} \cup {Some(f) : f \in [PendingTasks -> {"true", "false", "raise"}]}

NextEdge ==
    \/ \E policy \in EdgePolicies : UpdatePolicy(policy)
    \/ /\ NewTaskId <= MaxTasks
       /\ \E sync_type \in SyncTypes, priority \in EdgePriorities :
            QueueSync(sync_type, priority)
    \/ \E current_hour \in Hours, processor \in Processors :
            ProcessQueue(current_hour, processor)

InitEdge == InitChain({ONLINE}) /\ InitOrchestrator({LAST_WRITE_WINS}) /\ InitManager(EdgePolicies)

SpecEdge == InitEdge /\ [][NextEdge]_vars

\* ------------------------------------------------------------------------
\* Properties
\* ------------------------------------------------------------------------

\* The tool and the arguments of the step when it is a call, the tool when it
\* is a flush_queue.
CalledTool == IF last'.op = "call" THEN {last'.tool[1]} ELSE {}

CalledArgs == IF last'.op = "call" THEN {last'.call[1]} ELSE {}

FlushedTool == IF last'.op = "flush_queue" THEN {last'.tool[1]} ELSE {}

\* The step is call(tool_name, a) with the callables behaving as env.
CallStep(tool_name, a, env) ==
    /\ last'.op = "call"
    /\ last'.tool = Some(tool_name)
    /\ last'.call = Some(a)
    /\ Call(tool_name, a, env)

\* The step is flush_queue(tool_name) with the callables behaving as envs
\* during the re-invocations.
FlushStep(tool_name, envs) ==
    /\ last'.op = "flush_queue"
    /\ last'.tool = Some(tool_name)
    /\ FlushQueue(tool_name, envs)

\* The last operation was a call that returned a result of this outcome.
Returned(outcome) ==
    /\ last.op = "call"
    /\ last.results # None
    /\ last.results[1].outcome = outcome

\* The tool's cache holds an unexpired entry under the cache key of call a.
Fresh(tool_name, a) ==
    LET key == make_cache_key(a.args, a.kwargs)
    IN  /\ key \in DOMAIN caches[tool_name]
        /\ now - caches[tool_name][key].stored_at <= strategies[tool_name].cache_ttl_seconds

\* The primary cannot serve the call: the chain is OFFLINE or the primary raises.
PrimaryUnavailable(env) == state = OFFLINE \/ env.primary = None

\* The tier names of a tried log.
Tiers(tried) == [i \in 1..Len(tried) |-> tried[i][1]]

\* C9: call on a tool identifier that is not registered raises KeyError and
\* changes nothing: the connectivity state and every registered tool's
\* strategy, callables, cache, queue and counters are as before, no result is
\* returned and no tier (so neither primary nor local callable) is entered.
C9_UnknownToolRaisesAndChangesNothing ==
    [][\A tool_name \in CalledTool, a \in CalledArgs, env \in Envs :
        (tool_name \notin DOMAIN strategies /\ CallStep(tool_name, a, env))
        => /\ last'.raised = Some("KeyError")
           /\ last'.results = None
           /\ last'.tried = <<>>
           /\ UNCHANGED <<chain_vars, completed>>]_vars

\* C9 witness: a call to an unknown tool has raised KeyError on a chain that
\* has a registered tool with a non-zero counter.
C9_Witness ==
    /\ last.op = "call"
    /\ last.raised = Some("KeyError")
    /\ last.tool[1] \notin DOMAIN strategies
    /\ \E t \in DOMAIN call_counts : Calls(t) > 0

\* Every tier of the tool is enabled and a local callable is registered.
AllTiers(tool_name) ==
    /\ strategies[tool_name].enable_cache
    /\ strategies[tool_name].enable_local
    /\ strategies[tool_name].enable_queue
    /\ tool_name \in DOMAIN locals

\* The tiers entered after the primary.
FallbackTiers(tried) == SelectSeq(Tiers(tried), LAMBDA tier : tier # "primary")

\* C1: cascade ordering.  For a registered tool with the cache, local and
\* queue tiers enabled and a local callable registered, a call made while
\* OFFLINE, or while ONLINE with a primary that raises, returns CACHED when the
\* cache holds an unexpired entry under the call's cache key (no later tier is
\* entered); otherwise LOCAL when the local callable returns (the queue is not
\* entered); otherwise QUEUED, the tiers having been entered in the order
\* cache, local, queue.
C1_CascadeOrder ==
    [][\A tool_name \in CalledTool, a \in CalledArgs, env \in Envs :
        ( /\ tool_name \in DOMAIN strategies
          /\ AllTiers(tool_name)
          /\ PrimaryUnavailable(env)
          /\ CallStep(tool_name, a, env) )
        => /\ last'.raised = None
           /\ last'.results # None
           /\ IF Fresh(tool_name, a)
              THEN /\ last'.results[1].outcome = CACHED
                   /\ FallbackTiers(last'.tried) = <<"cache">>
              ELSE IF env.local # None
              THEN /\ last'.results[1].outcome = LOCAL_OUT
                   /\ FallbackTiers(last'.tried) = <<"cache", "local">>
              ELSE /\ last'.results[1].outcome = QUEUED
                   /\ FallbackTiers(last'.tried) = <<"cache", "local", "queue">>]_vars

\* C1 witness: ONLINE, the primary raised, the cache missed, the local
\* callable raised and the call was queued, all tiers being enabled.
C1_Witness ==
    /\ Returned(QUEUED)
    /\ AllTiers(last.tool[1])
    /\ state = ONLINE
    /\ Tiers(last.tried) = <<"primary", "cache", "local", "queue">>

\* C1 witness of the first branch: a CACHED result while a local callable
\* that would have served is registered and enabled.
C1_WitnessCached ==
    /\ Returned(CACHED)
    /\ AllTiers(last.tool[1])
    /\ state = OFFLINE

\* C2: a disabled or unavailable tier is never used.  A call returns CACHED
\* only if the strategy has enable_cache, LOCAL only if it has enable_local and
\* a local callable is registered, QUEUED only if it has enable_queue; when the
\* primary is unavailable and no enabled tier serves the call, the result is
\* FAILED with a non-empty error message and no value, and the queues are
\* unchanged.
C2_DisabledTierNeverUsed ==
    [][\A tool_name \in CalledTool, a \in CalledArgs, env \in Envs :
        (tool_name \in DOMAIN strategies /\ CallStep(tool_name, a, env))
        => LET strategy == strategies[tool_name]
               res == last'.results[1]
               served == \/ strategy.enable_cache /\ Fresh(tool_name, a)
                         \/ /\ strategy.enable_local
                            /\ tool_name \in DOMAIN locals
                            /\ env.local # None
                         \/ strategy.enable_queue
           IN  /\ last'.results # None
               /\ res.outcome = CACHED => strategy.enable_cache
               /\ res.outcome = LOCAL_OUT
                    => strategy.enable_local /\ tool_name \in DOMAIN locals
               /\ res.outcome = QUEUED => strategy.enable_queue
               /\ (PrimaryUnavailable(env) /\ ~served)
                    => /\ res.outcome = FAILED
                       /\ res.error # None
                       /\ res.error[1] # ""
                       /\ res.value = None
                       /\ queues' = queues]_vars

\* C2 witness: a FAILED result of a tool whose local tier is disabled although
\* a local callable is registered, and whose queue tier is disabled.
C2_Witness ==
    /\ Returned(FAILED)
    /\ last.tool[1] \in DOMAIN locals
    /\ ~strategies[last.tool[1]].enable_local
    /\ ~strategies[last.tool[1]].enable_queue
    /\ last.results[1].error # None

\* C8: tier failures are never surfaced.  A call on a registered tool never
\* raises and always returns a result, whatever the connectivity state and
\* whether the primary and the local callable raise; a primary or local
\* callable that raised is followed by the next tier or by the FAILED result.
C8_TierFailuresNeverSurfaced ==
    [][\A tool_name \in CalledTool, a \in CalledArgs, env \in Envs :
        (tool_name \in DOMAIN strategies /\ CallStep(tool_name, a, env))
        => /\ last'.raised = None
           /\ last'.results # None
           /\ \A i \in 1..Len(last'.tried) :
                last'.tried[i][2] = "raised"
                => \/ i < Len(last'.tried)
                   \/ last'.results[1].outcome = FAILED
           /\ (state = ONLINE /\ env.primary = None)
                => last'.tried[1] = <<"primary", "raised">>
           /\ last'.results[1].outcome = FAILED
                => /\ last'.results[1].error # None
                   /\ PrimaryUnavailable(env)]_vars

\* C8 witness: ONLINE, the primary and the local callable both raised and the
\* call returned FAILED without raising.
C8_Witness ==
    /\ Returned(FAILED)
    /\ last.raised = None
    /\ Len(last.tried) >= 2
    /\ last.tried[1] = <<"primary", "raised">>
    /\ last.tried[Len(last.tried)] = <<"local", "raised">>

\* The number of results of this outcome.
CountOf(results, outcome) ==
    Cardinality({i \in 1..Len(results) : results[i].outcome = outcome})

\* C10: call accounting.  A call on a registered tool increments exactly the
\* counter of the outcome it returned, by 1, and no other counter of any tool;
\* flush_queue increments the counters by the outcomes of its results; in
\* every reachable state the five counters of a tool sum to the number of
\* calls completed for it since registration, replays included.
C10_CallAccounting ==
    /\ [](\A t \in DOMAIN call_counts : Calls(t) = completed[t])
    /\ [][\A tool_name \in CalledTool, a \in CalledArgs, env \in Envs :
            (tool_name \in DOMAIN strategies /\ CallStep(tool_name, a, env))
            => /\ last'.results # None
               /\ call_counts' =
                    [call_counts EXCEPT ![tool_name][last'.results[1].outcome] = @ + 1]]_vars
    /\ [][\A tool_name \in FlushedTool : \A envs \in EnvSeqs(tool_name, Envs) :
            (tool_name \in DOMAIN strategies /\ FlushStep(tool_name, envs))
            => call_counts' =
                 [call_counts EXCEPT ![tool_name] =
                    [o \in FallbackOutcome |-> @[o] + CountOf(last'.results, o)]]]_vars

\* C10 witness: after a flush_queue that replayed a call, the tool has
\* non-zero counters for two outcomes and they sum to the completed calls.
C10_Witness ==
    /\ last.op = "flush_queue"
    /\ Len(last.results) >= 1
    /\ \E t \in DOMAIN call_counts :
         /\ completed[t] = 2
         /\ Calls(t) = 2
         /\ Cardinality({o \in FallbackOutcome : call_counts[t][o] > 0}) = 2

\* C3: cache population.  For a tool with caching enabled, a call that
\* returned PRIMARY with value v, followed by set_state(OFFLINE) and then by a
\* call with the same arguments made before the TTL has elapsed, returns
\* CACHED with the value v.
C3_CachePopulation ==
    ( /\ primed.stage = 3
      /\ last.op = "call"
      /\ strategies[primed.tool[1]].enable_cache
      /\ last.at - primed.at <= strategies[primed.tool[1]].cache_ttl_seconds )
    => /\ Returned(CACHED)
       /\ last.results[1].value = primed.value

\* C3 witness: the scenario has happened with the keywords of the second call
\* written in another order and after time has passed, and it returned CACHED.
C3_Witness ==
    /\ primed.stage = 3
    /\ Returned(CACHED)
    /\ last.call # primed.call
    /\ last.at > primed.at

\* C4: cache isolation by arguments.  A CACHED result for a call with
\* arguments b was stored by a primary call with the same arguments b: an
\* entry written for arguments a is never served for different arguments b.
C4_CacheIsolationByArguments ==
    Returned(CACHED)
    => LET key == <<last.tool[1], make_cache_key(last.call[1].args, last.call[1].kwargs)>>
       IN  /\ key \in DOMAIN cache_writer
           /\ SameArguments(cache_writer[key].call, last.call[1])
           /\ cache_writer[key].value = last.results[1].value[1]

\* The calls of a sequence of QueuedCall.
CallsOf(entries) ==
    [i \in 1..Len(entries) |-> [args |-> entries[i].args, kwargs |-> entries[i].kwargs]]

\* C5: queue FIFO replay.  When the calls that returned QUEUED since the
\* tool's last flush (or registration) did not exceed the capacity,
\* flush_queue re-invokes exactly these calls in the order in which they were
\* queued, and result i is the result of the i-th re-invocation.
C5_QueueFifoReplay ==
    [][\A tool_name \in FlushedTool : \A envs \in EnvSeqs(tool_name, Envs) :
        ( /\ tool_name \in DOMAIN strategies
          /\ Len(queued_log[tool_name].calls) <= queues[tool_name].maxlen
          /\ FlushStep(tool_name, envs) )
        => /\ last'.replayed = queued_log[tool_name].calls
           /\ Len(last'.results) = Len(queued_log[tool_name].calls)
           /\ \A i \in 1..Len(last'.results) :
                /\ (state = ONLINE /\ envs[i].primary # None)
                     => /\ last'.results[i].outcome = PRIMARY
                        /\ last'.results[i].value = envs[i].primary
                /\ last'.results[i].outcome = LOCAL_OUT
                     => last'.results[i].value = envs[i].local]_vars

\* C5 witness: a flush re-invoked two different queued calls, in the order in
\* which they had been queued, with different results.
C5_Witness ==
    /\ last.op = "flush_queue"
    /\ Len(last.replayed) = 2
    /\ last.replayed[1] # last.replayed[2]
    /\ Len(last.results) = 2
    /\ last.results[1].value # last.results[2].value

\* C6: flush_queue re-invokes exactly the calls that were in the tool's queue
\* when it started: it returns as many results as the queue held, in the
\* queue's order, and the queue afterwards holds exactly the calls that were
\* queued again during the flush, which were not re-invoked a second time.
C6_FlushReplaysQueueAtStart ==
    [][\A tool_name \in FlushedTool : \A envs \in EnvSeqs(tool_name, Envs) :
        (tool_name \in DOMAIN strategies /\ FlushStep(tool_name, envs))
        => /\ last'.raised = None
           /\ Len(last'.results) = Len(queues[tool_name].items)
           /\ last'.replayed = CallsOf(queues[tool_name].items)
           /\ CallsOf(queues'[tool_name].items)
                = QueuedAmong(last'.replayed, last'.results)]_vars

\* C6 witness: a flush of two calls, one of them served and the other queued
\* again and still in the queue.
C6_Witness ==
    /\ last.op = "flush_queue"
    /\ Len(last.results) = 2
    /\ \E i, j \in 1..2 :
         /\ last.results[i].outcome = QUEUED
         /\ last.results[j].outcome = PRIMARY
         /\ CallsOf(queues[last.tool[1]].items) = <<last.replayed[i]>>

\* C7: replay after reconnect.  When every queued call was queued while
\* OFFLINE, the chain is ONLINE and the primary returns for every
\* re-invocation, flush_queue returns a PRIMARY result, with the primary's
\* value, for every queued call and the tool's queue is empty afterwards.
C7_ReplayAfterReconnect ==
    [][\A tool_name \in FlushedTool : \A envs \in EnvSeqs(tool_name, Envs) :
        ( /\ tool_name \in DOMAIN strategies
          /\ queued_log[tool_name].offline
          /\ state = ONLINE
          /\ \A i \in 1..Len(envs) : envs[i].primary # None
          /\ FlushStep(tool_name, envs) )
        => /\ Len(last'.results) = Len(queues[tool_name].items)
           /\ \A i \in 1..Len(last'.results) :
                /\ last'.results[i].outcome = PRIMARY
                /\ last'.results[i].value = envs[i].primary
           /\ Len(queues'[tool_name].items) = 0]_vars

\* C7 witness: ONLINE, a flush of two calls that had been queued while
\* OFFLINE has returned two PRIMARY results and left the queue empty.
C7_Witness ==
    /\ last.op = "flush_queue"
    /\ last.tool[1] \in DOMAIN queued_log
    /\ queued_log[last.tool[1]].flushed_offline
    /\ state = ONLINE
    /\ Len(last.results) = 2
    /\ \A i \in 1..2 : last.results[i].outcome = PRIMARY
    /\ Len(queues[last.tool[1]].items) = 0

\* C11: bounded queue.  In every reachable state a tool's queue holds at most
\* max_queue_size calls; a call that is queued while the queue is at capacity
\* is appended and the oldest call is evicted: the queue afterwards is the
\* queue before, in its order, followed by the new call, without its first
\* element.  Below capacity the new call is appended and nothing is evicted.
C11_BoundedQueue ==
    /\ [](\A t \in DOMAIN queues :
            Len(queues[t].items) <= strategies[t].max_queue_size)
    /\ [][\A tool_name \in CalledTool, a \in CalledArgs, env \in Envs :
            ( /\ tool_name \in DOMAIN strategies
              /\ CallStep(tool_name, a, env)
              /\ last'.results # None
              /\ last'.results[1].outcome = QUEUED )
            => LET before == CallsOf(queues[tool_name].items) \o <<a>>
                   after == CallsOf(queues'[tool_name].items)
               IN  IF Len(queues[tool_name].items) = strategies[tool_name].max_queue_size
                   THEN after = SubSeq(before, 2, Len(before))
                   ELSE after = before]_vars

\* C11 witness: a call was queued into a full queue of two calls; the queue
\* still holds two calls, the new one last, and the first call queued is gone.
C11_Witness ==
    /\ Returned(QUEUED)
    /\ Calls(last.tool[1]) = 3
    /\ call_counts[last.tool[1]][QUEUED] = 3
    /\ strategies[last.tool[1]].max_queue_size = 2
    /\ Len(queues[last.tool[1]].items) = 2
    /\ CallsOf(queues[last.tool[1]].items)[2] = last.call[1]
    /\ CallsOf(queues[last.tool[1]].items)[1] # last.call[1]

\* The step is a sync_all or a sync_priority: the results it returned are
\* those it appended to the history.
SyncStep ==
    /\ sync_last'.op \in {"sync_all", "sync_priority"}
    /\ history' = history \o sync_last'.results

\* The winning value of the most recent SYNCED result for the key in a
\* history, None when there is none.
LastSyncedValue(log, key) ==
    LET synced == {j \in 1..Len(log) : log[j].key = key /\ log[j].status = SYNCED}
    IN  IF synced = {} THEN None
        ELSE log[CHOOSE j \in synced : \A k \in synced : k <= j].conflict_resolved_value

\* C12: delta-sync idempotence.  When an item is processed and its key has a
\* SYNCED result before it (in the history or earlier in the same batch), the
\* item is SKIPPED if its value is the winning value of the most recent such
\* result, whatever its remote value, timestamps and policy, and it is not
\* SKIPPED if its value is a different one.
C12_DeltaSyncIdempotence ==
    [][SyncStep =>
        \A i \in 1..Len(sync_last'.results) :
            LET item == items[sync_last'.processed[i]]
                prior == history \o SubSeq(sync_last'.results, 1, i - 1)
                synced == LastSyncedValue(prior, item.key)
            IN  synced # None
                => ( sync_last'.results[i].status = SKIPPED
                     <=> synced[1] = item.local_value )]_vars
\* The PENDING entries of the queue, those of priority CRITICAL first, then
\* HIGH, NORMAL and LOW, each group in the order of the queue.
InPriorityOrder ==
    LET OfPriority(priority) ==
            SelectSeq(queue, LAMBDA ref : /\ items[ref].status = PENDING
                                          /\ items[ref].priority = priority)
    IN  OfPriority(CRITICAL) \o OfPriority(HIGH) \o OfPriority(NORMAL) \o OfPriority(LOW)

\* C13: priority ordering.  get_pending returns the PENDING items in the
\* order CRITICAL, HIGH, NORMAL, LOW, those of equal priority in enqueue
\* order; sync_all processes the pending items in that order, returns their
\* results in that order and appends them to the history in that order.
C13_PriorityOrdering ==
    /\ [](get_pending(SelfSync) = InPriorityOrder)
    /\ [][sync_last'.op = "sync_all" /\ SyncAll
            => /\ sync_last'.processed = InPriorityOrder
               /\ Len(sync_last'.results) = Len(InPriorityOrder)
               /\ \A i \in 1..Len(InPriorityOrder) :
                    sync_last'.results[i].item_id = items[InPriorityOrder[i]].item_id
               /\ history' = history \o sync_last'.results]_vars

\* A sync_all has processed three items, two of equal priority and one that
\* was enqueued after another but processed before it.
C13_Witness ==
    /\ sync_last.op = "sync_all"
    /\ Len(sync_last.results) = 3
    /\ \E i \in 1..3, j \in 1..3 :
         /\ i < j
         /\ items[sync_last.processed[i]].priority = items[sync_last.processed[j]].priority
    /\ \E i \in 1..3, j \in 1..3 :
         /\ i < j
         /\ sync_last.results[i].item_id > sync_last.results[j].item_id
\* The items a sync_all or a sync_priority step processed, by their position
\* in the results.
Processed == IF SyncStep THEN DOMAIN sync_last'.results ELSE {}

\* The i-th item processed by the step, as it was when the step began.
ItemAt(i) == items[sync_last'.processed[i]]

\* The i-th result of the step.
ResultAt(i) == sync_last'.results[i]

\* The item carries a remote value that is not its local value.
Diverging(item) == item.remote_value # None /\ item.remote_value[1] # item.local_value

\* C14: LAST_WRITE_WINS.  An item with policy LAST_WRITE_WINS whose remote
\* value is present and is not the local value is never flagged CONFLICT, and
\* when its result is SYNCED the winning value is the remote value if the
\* remote timestamp is strictly later than the local one, and the local
\* value otherwise (equal timestamps included).
C14_LastWriteWins ==
    [][\A i \in Processed :
        ( ItemAt(i).conflict_resolution = LAST_WRITE_WINS /\ Diverging(ItemAt(i)) )
        => /\ ResultAt(i).status \in {SYNCED, SKIPPED}
           /\ ResultAt(i).status = SYNCED
              => ResultAt(i).conflict_resolved_value =
                    IF /\ ItemAt(i).remote_modified_at # None
                       /\ ItemAt(i).remote_modified_at[1] > ItemAt(i).local_modified_at
                    THEN ItemAt(i).remote_value
                    ELSE Some(ItemAt(i).local_value)]_vars

\* A LAST_WRITE_WINS item whose diverging remote value is the later write has
\* been processed and the remote value has won.
C14_Witness ==
    /\ sync_last.op = "sync_all"
    /\ Len(sync_last.results) = 1
    /\ sync_last.results[1].status = SYNCED
    /\ LET item == items[sync_last.processed[1]]
       IN  /\ item.conflict_resolution = LAST_WRITE_WINS
           /\ item.remote_value = Some(PyInt2)
           /\ item.remote_modified_at = Some(2)
           /\ sync_last.results[1].conflict_resolved_value = Some(PyInt2)
\* C15: LOCAL_WINS and REMOTE_WINS ignore timestamps.  An item with a remote
\* timestamp (earlier than, equal to or later than the local one) and a
\* remote value that is not its local value, when it is not delta-skipped,
\* gets a SYNCED result whose winning value is the local value under
\* LOCAL_WINS and the remote value under REMOTE_WINS.
C15_LocalRemoteWinsIgnoreTimestamps ==
    [][\A i \in Processed :
        ( /\ ItemAt(i).conflict_resolution \in {LOCAL_WINS, REMOTE_WINS}
          /\ Diverging(ItemAt(i))
          /\ ItemAt(i).remote_modified_at # None
          /\ ResultAt(i).status # SKIPPED )
        => /\ ResultAt(i).status = SYNCED
           /\ ResultAt(i).conflict_resolved_value =
                IF ItemAt(i).conflict_resolution = LOCAL_WINS
                THEN Some(ItemAt(i).local_value)
                ELSE ItemAt(i).remote_value]_vars
\* C18: conflict detection is by content.  An item that is not delta-skipped
\* and has no remote value, or a remote value identical to its local value,
\* is SYNCED with the local value as winning value whatever its timestamps
\* and policy; an item is flagged CONFLICT only when it carries a remote
\* value and a remote timestamp and the fingerprint of the remote value is
\* not the local fingerprint.
C18_ConflictDetectionByContent ==
    [][\A i \in Processed :
        ResultAt(i).status # SKIPPED
        => /\ ~Diverging(ItemAt(i))
              => /\ ResultAt(i).status = SYNCED
                 /\ ResultAt(i).conflict_resolved_value = Some(ItemAt(i).local_value)
           /\ ResultAt(i).status = CONFLICT
              => /\ ItemAt(i).remote_value # None
                 /\ ItemAt(i).remote_modified_at # None
                 /\ compute_checksum(ItemAt(i).remote_value[1])
                        # ItemAt(i).local_checksum]_vars
\* The step is a resolve_manual_conflict(item_id, chosen_value).
ResolveStep(item_id, chosen_value) ==
    /\ sync_last'.op = "resolve_manual_conflict"
    /\ sync_last'.args = <<item_id, chosen_value>>
    /\ ResolveManualConflict(item_id, chosen_value)

\* The id and the value of the step when it is a resolve_manual_conflict.
ResolvedId ==
    IF sync_last'.op = "resolve_manual_conflict" THEN {sync_last'.args[1]} ELSE {}

ResolvedValue ==
    IF sync_last'.op = "resolve_manual_conflict" THEN {sync_last'.args[2]} ELSE {}

\* The item is in the list get_manual_conflicts returns.
AwaitsResolution(conflicts, item_id) ==
    \E i \in 1..Len(conflicts) : conflicts[i] = item_id

\* C16: manual conflict round-trip.  Processing a MANUAL item with a remote
\* timestamp and a remote value that is not its local value (and that is not
\* delta-skipped) yields a CONFLICT result without a winning value and the
\* item is in get_manual_conflicts(); a resolve_manual_conflict(item_id,
\* chosen) of an item in that list returns a SYNCED result with winning
\* value chosen, sets the item's status to SYNCED and leaves the item out of
\* get_manual_conflicts().
C16_ManualConflictRoundTrip ==
    /\ [][\A i \in Processed :
            ( /\ ItemAt(i).conflict_resolution = MANUAL
              /\ Diverging(ItemAt(i))
              /\ ItemAt(i).remote_modified_at # None
              /\ ResultAt(i).status # SKIPPED )
            => /\ ResultAt(i).status = CONFLICT
               /\ ResultAt(i).conflict_resolved_value = None
               /\ AwaitsResolution(get_manual_conflicts(SelfSync)',
                                   sync_last'.processed[i])]_vars
    /\ [][\A item_id \in ResolvedId, chosen_value \in ResolvedValue :
            ( /\ ResolveStep(item_id, chosen_value)
              /\ AwaitsResolution(get_manual_conflicts(SelfSync), item_id) )
            => /\ sync_last'.raised = None
               /\ Len(sync_last'.results) = 1
               /\ sync_last'.results[1].status = SYNCED
               /\ sync_last'.results[1].conflict_resolved_value = Some(chosen_value)
               /\ items'[item_id].status = SYNCED
               /\ ~AwaitsResolution(get_manual_conflicts(SelfSync)', item_id)]_vars
\* C17: resolve_manual_conflict(item_id, chosen) raises KeyError whenever no
\* item with that id awaits manual resolution: the id of no item, or of an
\* item that is PENDING, SYNCED (resolved before, or synced without a
\* conflict) or SKIPPED; the manual-conflict list, the checksum table, the
\* items' statuses and the history are then unchanged.
C17_ResolveUnknownConflict ==
    [][\A item_id \in ResolvedId, chosen_value \in ResolvedValue :
        ( /\ ResolveStep(item_id, chosen_value)
          /\ item_id \in DOMAIN items => items[item_id].status # CONFLICT )
        => /\ sync_last'.raised = Some("KeyError")
           /\ manual_conflicts' = manual_conflicts
           /\ checksums' = checksums
           /\ items' = items
           /\ history' = history]_vars
\* The status assignments of the life cycle: PENDING -> IN_FLIGHT ->
\* {SYNCED, SKIPPED, CONFLICT}, and CONFLICT -> SYNCED by
\* resolve_manual_conflict only.
LifecycleEdge(op, from, to) ==
    \/ from = PENDING /\ to = IN_FLIGHT
    \/ from = IN_FLIGHT /\ to \in {SYNCED, SKIPPED, CONFLICT}
    \/ from = CONFLICT /\ to = SYNCED /\ op = "resolve_manual_conflict"

\* C19: item lifecycle.  Under enqueue, enqueue_batch, sync_all,
\* sync_priority and resolve_manual_conflict every assignment to an item's
\* status goes along PENDING -> IN_FLIGHT -> {SYNCED, SKIPPED, CONFLICT} or,
\* in resolve_manual_conflict only, CONFLICT -> SYNCED; an item that is
\* SYNCED or SKIPPED keeps its status and is not processed again.
C19_ItemLifecycle ==
    [][/\ \A w \in DOMAIN sync_last'.writes :
            LifecycleEdge(sync_last'.op, sync_last'.writes[w][2], sync_last'.writes[w][3])
       /\ \A item_id \in DOMAIN items :
            items[item_id].status \in {SYNCED, SKIPPED}
            => /\ items'[item_id].status = items[item_id].status
               /\ \A i \in Processed : sync_last'.processed[i] # item_id]_vars
\* The items a history shows to have been flagged for manual resolution.
Flagged(log) == {log[i].item_id : i \in {j \in 1..Len(log) : log[j].status = CONFLICT}}

\* C20: an item flagged for manual resolution leaves the active queue when
\* it is flagged.  From then on, resolved or not, it is no entry of the
\* queue, get_pending does not return it, and no sync_all or sync_priority
\* processes it again.
C20_FlaggedItemLeavesQueue ==
    /\ [](\A item_id \in Flagged(get_history(SelfSync)) :
            /\ \A i \in 1..Len(queue) : queue[i] # item_id
            /\ \A i \in 1..Len(get_pending(SelfSync)) : get_pending(SelfSync)[i] # item_id)
    /\ [][\A i \in Processed :
            sync_last'.processed[i]
                \notin Flagged(history \o SubSeq(sync_last'.results, 1, i - 1))]_vars
\* The step is a sync_all, a sync_priority or a resolve_manual_conflict that
\* returned.
ReturningStep ==
    \/ sync_last'.op = "sync_all" /\ SyncAll
    \/ /\ sync_last'.op = "sync_priority"
       /\ \E priority \in {sync_last'.args[1]} : SyncPriorityLevel(priority)
    \/ /\ sync_last'.op = "resolve_manual_conflict"
       /\ sync_last'.raised = None
       /\ \E item_id \in ResolvedId, chosen_value \in ResolvedValue :
            ResolveManualConflict(item_id, chosen_value)

\* C21: the history is append-only and complete.  No step removes or changes
\* an entry of the history; the results a sync_all, a sync_priority or a
\* resolve_manual_conflict returns are appended to it in the order returned
\* (the CONFLICT entry of an item resolved later stays, its SYNCED entry is
\* added); get_stats has one count per SyncStatus, each the number of
\* entries with that status, and the counts sum to the length of the history.
C21_HistoryAppendOnly ==
    /\ [][/\ Len(get_history(SelfSync)') >= Len(history)
          /\ SubSeq(get_history(SelfSync)', 1, Len(history)) = history
          /\ ReturningStep => get_history(SelfSync)' = history \o sync_last'.results]_vars
    /\ [](/\ DOMAIN get_stats(SelfSync) = SyncStatus
          /\ \A status \in SyncStatus :
                get_stats(SelfSync)[status]
                    = Len(SelectSeq(history, LAMBDA result : result.status = status))
          /\ get_stats(SelfSync)[PENDING] + get_stats(SelfSync)[IN_FLIGHT]
                + get_stats(SelfSync)[SYNCED] + get_stats(SelfSync)[CONFLICT]
                + get_stats(SelfSync)[SYNC_FAILED] + get_stats(SelfSync)[SKIPPED]
                = Len(history))

\* A manual conflict has been resolved: the history holds the CONFLICT entry
\* of the item and, last, its SYNCED entry, after an entry of another item.
C21_Witness ==
    /\ sync_last.op = "resolve_manual_conflict"
    /\ sync_last.raised = None
    /\ Len(history) >= 3
    /\ history[Len(history)] = sync_last.results[1]
    /\ \E i \in 1..Len(history) - 1 :
         /\ history[i].status = CONFLICT
         /\ history[i].item_id = sync_last.args[1]
    /\ \E i \in 1..Len(history) - 1 : history[i].item_id # sync_last.args[1]
    /\ get_stats(SelfSync)[CONFLICT] = 1
\* The items that are PENDING in the queue.
PendingItems == {queue[i] : i \in {j \in 1..Len(queue) : items[queue[j]].status = PENDING}}

\* C22: sync_all returns exactly one result for each item that was PENDING
\* when it was invoked and no other result (none when no item was PENDING);
\* when it returns no item is PENDING: queue_size() is 0 and get_pending()
\* is empty.
C22_SyncAllProcessesEveryPendingOnce ==
    [][sync_last'.op = "sync_all" /\ SyncAll
        => /\ \A item_id \in PendingItems :
                Cardinality({i \in DOMAIN sync_last'.results :
                                sync_last'.results[i].item_id = item_id}) = 1
           /\ \A i \in DOMAIN sync_last'.results :
                sync_last'.results[i].item_id \in PendingItems
           /\ \A item_id \in DOMAIN items' : items'[item_id].status # PENDING
           /\ queue_size(SelfSync)' = 0
           /\ get_pending(SelfSync)' = <<>>]_vars
\* The priority of the step when it is a sync_priority.
SyncedPriority == IF sync_last'.op = "sync_priority" THEN {sync_last'.args[1]} ELSE {}

\* C23: sync_priority(level) processes the PENDING items whose priority is
\* level, all of them and no other, in the order in which they were
\* enqueued, and returns their results in that order; every item of another
\* priority is left as it was (a PENDING one stays PENDING) and gets no
\* result.
C23_SyncPriorityFrame ==
    [][\A priority \in SyncedPriority :
        SyncPriorityLevel(priority)
        => LET level == {i \in 1..Len(queue) : /\ items[queue[i]].status = PENDING
                                              /\ items[queue[i]].priority = priority}
           IN  /\ Len(sync_last'.results) = Cardinality(level)
               /\ Len(sync_last'.processed) = Cardinality(level)
               /\ \A i \in level :
                    \E k \in DOMAIN sync_last'.processed :
                        /\ sync_last'.processed[k] = queue[i]
                        /\ sync_last'.results[k].item_id = items[queue[i]].item_id
                        /\ k = Cardinality({j \in level : j <= i})
               /\ \A item_id \in DOMAIN items :
                    items[item_id].priority # priority
                    => /\ items'[item_id] = items[item_id]
                       /\ \A k \in DOMAIN sync_last'.results :
                            sync_last'.results[k].item_id # item_id]_vars

\* A sync_priority has processed two items while an item of a more urgent
\* priority, enqueued before them, is still PENDING.
C23_Witness ==
    /\ sync_last.op = "sync_priority"
    /\ Len(sync_last.results) = 2
    /\ sync_last.results[1].item_id < sync_last.results[2].item_id
    /\ \E item_id \in DOMAIN items :
         /\ items[item_id].status = PENDING
         /\ items[item_id].priority < sync_last.args[1]
         /\ item_id < sync_last.results[1].item_id
C25_SetStateFrame ==
    [][\A new_state \in OnlineState :
        ( last'.op = "set_state" /\ SetState(new_state) )
        => /\ state' = new_state
           /\ UNCHANGED <<strategies, primaries, locals, caches, queues, call_counts>>
           /\ \A tool_name \in Tools :
                /\ get_queue_size(Self, tool_name)' = get_queue_size(Self, tool_name)
                /\ get_call_stats(Self, tool_name)' = get_call_stats(Self, tool_name)
           /\ state = new_state => UNCHANGED chain_vars]_vars

\* set_state has left the chain ONLINE with a call still in a tool's queue
\* and a value in its cache.
C25_Witness ==
    /\ last.op = "set_state"
    /\ state = ONLINE
    /\ \E tool_name \in DOMAIN queues :
         /\ Len(queues[tool_name].items) >= 1
         /\ call_counts[tool_name][QUEUED] >= 1
         /\ caches[tool_name] # <<>>
\* C26: the connectivity state is written by set_state only.  A step that
\* changes the state is a set_state: register_tool, call and flush_queue
\* leave it as it is (get_queue_size and get_call_stats return a value and
\* assign nothing).  A call made while ONLINE, after a primary failure too,
\* leaves the chain ONLINE and tries the primary first.
C26_StateWrittenBySetStateOnly ==
    [][/\ state' # state => last'.op = "set_state"
       /\ last'.op \in {"register_tool", "call", "flush_queue"} => state' = state
       /\ ( last'.op = "call" /\ last'.raised = None /\ state = ONLINE )
          => /\ state' = ONLINE
             /\ last'.tried # <<>>
             /\ last'.tried[1][1] = "primary"]_vars

\* The second call to a tool has found the chain ONLINE and its primary
\* failing, and no call to the tool has been answered by the primary.
C26_Witness ==
    /\ last.op = "call"
    /\ state = ONLINE
    /\ last.tried # <<>>
    /\ last.tried[1] = <<"primary", "raised">>
    /\ Calls(last.tool[1]) = 2
    /\ call_counts[last.tool[1]][PRIMARY] = 0
\* The number of times a call entered the primary tier.
PrimaryInvocations(tried) ==
    Cardinality({i \in DOMAIN tried : tried[i][1] = "primary"})

\* C27: the primary is gated by connectivity.  A call to a registered tool
\* invokes the primary once, before any other tier, when the chain is ONLINE
\* and never when it is OFFLINE; its outcome is PRIMARY exactly when the
\* chain is ONLINE and the primary returned, whether or not the cache holds
\* a fresh entry for the arguments.  The same holds of each call re-invoked
\* by flush_queue.
C27_PrimaryGatedByConnectivity ==
    /\ [][\A tool_name \in CalledTool, a \in CalledArgs, env \in CascadeEnvs :
            ( tool_name \in DOMAIN strategies /\ CallStep(tool_name, a, env) )
            => /\ last'.results # None
               /\ PrimaryInvocations(last'.tried) = IF state = ONLINE THEN 1 ELSE 0
               /\ state = ONLINE => last'.tried[1][1] = "primary"
               /\ last'.results[1].outcome = PRIMARY
                  <=> ( state = ONLINE /\ env.primary # None )]_vars
    /\ [][\A tool_name \in FlushedTool : \A envs \in EnvSeqs(tool_name, CascadeEnvs) :
            ( tool_name \in DOMAIN strategies /\ FlushStep(tool_name, envs) )
            => \A i \in 1..Len(last'.results) :
                    last'.results[i].outcome = PRIMARY
                    <=> ( state = ONLINE /\ envs[i].primary # None )]_vars

\* A call has returned PRIMARY for arguments whose value an earlier PRIMARY
\* call had put into the cache.
C27_Witness ==
    /\ Returned(PRIMARY)
    /\ strategies[last.tool[1]].enable_cache
    /\ call_counts[last.tool[1]][PRIMARY] = 2
    /\ Cardinality(DOMAIN caches[last.tool[1]]) = 1
    /\ Tiers(last.tried) = <<"primary">>
\* The tool has the local tier enabled and a local callable registered.
LocalAvailable(tool_name) ==
    strategies[tool_name].enable_local /\ tool_name \in DOMAIN locals

\* C28: cache expiry.  When the cache tier of a call consults an entry (the
\* primary is unavailable, the cache is enabled and an entry is stored under
\* the call's key), the result is CACHED exactly when the entry's age,
\* now - stored_at, is at most the tool's TTL.  When the age exceeds the TTL
\* the entry is removed from the cache and the cascade goes on: the local
\* tier serves if it is available and returns, else the call is queued if
\* the queue is enabled, else it fails; the expired value is not returned.
C28_CacheExpiry ==
    [][\A tool_name \in CalledTool, a \in CalledArgs, env \in CascadeEnvs :
        ( /\ tool_name \in DOMAIN strategies
          /\ PrimaryUnavailable(env)
          /\ strategies[tool_name].enable_cache
          /\ make_cache_key(a.args, a.kwargs) \in DOMAIN caches[tool_name]
          /\ CallStep(tool_name, a, env) )
        => LET key == make_cache_key(a.args, a.kwargs)
               age == now - caches[tool_name][key].stored_at
               ttl == strategies[tool_name].cache_ttl_seconds
               result == last'.results[1]
           IN  /\ last'.results # None
               /\ result.outcome = CACHED <=> age <= ttl
               /\ age <= ttl => result.value = Some(caches[tool_name][key].value)
               /\ age > ttl
                  => /\ key \notin DOMAIN caches'[tool_name]
                     /\ result.outcome =
                            IF LocalAvailable(tool_name) /\ env.local # None
                            THEN LOCAL_OUT
                            ELSE IF strategies[tool_name].enable_queue
                            THEN QUEUED ELSE FAILED
                     /\ FallbackTiers(last'.tried) =
                            <<"cache">>
                            \o (IF LocalAvailable(tool_name) THEN <<"local">> ELSE <<>>)
                            \o (IF LocalAvailable(tool_name) /\ env.local # None
                                THEN <<>>
                                ELSE IF strategies[tool_name].enable_queue
                                THEN <<"queue">> ELSE <<>>)]_vars

\* A call found an expired entry, which is gone from the cache, and the
\* local tier served it.
C28_Witness ==
    /\ Returned(LOCAL_OUT)
    /\ \E i \in DOMAIN last.tried : last.tried[i] = <<"cache", "expired">>
    /\ caches[last.tool[1]] = <<>>
    /\ call_counts[last.tool[1]][PRIMARY] = 1
\* The chain c as it would be had only this tool been registered.
Only(c, tool_name) ==
    LET Keep(d) == [k \in DOMAIN d \cap {tool_name} |-> d[k]]
    IN  [c EXCEPT !.strategies = Keep(@), !.primaries = Keep(@), !.locals = Keep(@),
                  !.caches = Keep(@), !.queues = Keep(@), !.call_counts = Keep(@)]

\* A step leaves the cache, the queue and the counters of this tool alone.
ToolUntouched(u) ==
    /\ caches'[u] = caches[u]
    /\ queues'[u] = queues[u]
    /\ call_counts'[u] = call_counts[u]

\* C29: tool isolation.  call(t, ...) and flush_queue(t) leave the cache, the
\* queue and the counters of every other registered tool unchanged, and
\* their results and their effect on t are those of the same operation on a
\* chain where t alone is registered, so that nothing of another tool is
\* read; a CACHED result of a call to t carries the value stored in t's own
\* cache under the call's key.
C29_ToolIsolation ==
    /\ [][\A tool_name \in CalledTool, a \in CalledArgs, env \in ToolEnvs :
            ( tool_name \in DOMAIN strategies /\ CallStep(tool_name, a, env) )
            => /\ \A u \in DOMAIN strategies \ {tool_name} : ToolUntouched(u)
               /\ \E r \in {call(Only(Self, tool_name), tool_name, a, env, now)} :
                    /\ last'.results = r.result
                    /\ caches'[tool_name] = r.chain.caches[tool_name]
                    /\ queues'[tool_name] = r.chain.queues[tool_name]
                    /\ call_counts'[tool_name] = r.chain.call_counts[tool_name]
               /\ last'.results[1].outcome = CACHED
                  => /\ make_cache_key(a.args, a.kwargs) \in DOMAIN caches[tool_name]
                     /\ last'.results[1].value =
                            Some(caches[tool_name][make_cache_key(a.args, a.kwargs)].value)]_vars
    /\ [][\A tool_name \in FlushedTool : \A envs \in EnvSeqs(tool_name, ToolEnvs) :
            ( tool_name \in DOMAIN strategies /\ FlushStep(tool_name, envs) )
            => /\ \A u \in DOMAIN strategies \ {tool_name} : ToolUntouched(u)
               /\ \E r \in {flush_queue(Only(Self, tool_name), tool_name, envs, now)} :
                    /\ last'.results = r.results
                    /\ caches'[tool_name] = r.chain.caches[tool_name]
                    /\ queues'[tool_name] = r.chain.queues[tool_name]
                    /\ call_counts'[tool_name] = r.chain.call_counts[tool_name]]_vars

\* A call to one tool was queued although the cache of the other tool holds
\* a fresh entry under the same key.
C29_Witness ==
    /\ Returned(QUEUED)
    /\ \E u \in DOMAIN strategies \ {last.tool[1]} :
            /\ make_cache_key(last.call[1].args, last.call[1].kwargs) \in DOMAIN caches[u]
            /\ call_counts[u][PRIMARY] = 1
    /\ caches[last.tool[1]] = <<>>
    /\ Tiers(last.tried) = <<"cache", "queue">>
\* The step is register_tool with these arguments.
RegisterStep(strategy, primary, local_alt) ==
    /\ last'.op = "register_tool"
    /\ last'.tool = Some(strategy.tool_name)
    /\ RegisterTool(strategy, primary, local_alt)

\* C30, first part: registering a tool that is registered already does not
\* fail and leaves the tool with an empty cache, an empty queue of the new
\* capacity, all counters at zero and the strategy and primary just given.
C30_ReRegistrationResets ==
    [][\A strategy \in RegisterStrategies, primary \in RegisterPrimaries, local_alt \in LocalAlts :
        ( strategy.tool_name \in DOMAIN strategies
          /\ RegisterStep(strategy, primary, local_alt) )
        => /\ last'.raised = None
           /\ caches'[strategy.tool_name] = <<>>
           /\ queues'[strategy.tool_name].items = <<>>
           /\ queues'[strategy.tool_name].maxlen = strategy.max_queue_size
           /\ \A outcome \in FallbackOutcome : call_counts'[strategy.tool_name][outcome] = 0
           /\ strategies'[strategy.tool_name] = strategy
           /\ primaries'[strategy.tool_name] = primary]_vars

\* C30: re-registration, the last registration wins.  Registering a tool
\* that is registered already does not fail and leaves it with an empty
\* cache, an empty queue and all counters at zero; every call uses the
\* strategy and the primary of the latest registration, and enters the local
\* tier only with the local_alt of the latest registration: never when the
\* latest registration supplied none.
C30_ReRegistrationLastWins ==
    /\ C30_ReRegistrationResets
    /\ [][\A tool_name \in CalledTool, a \in CalledArgs, env \in CascadeEnvs :
            ( tool_name \in DOMAIN strategies /\ CallStep(tool_name, a, env) )
            => /\ strategies[tool_name] = registered[tool_name].strategy
               /\ primaries[tool_name] = registered[tool_name].primary
               /\ "local" \in {last'.tried[i][1] : i \in DOMAIN last'.tried}
                  => /\ registered[tool_name].local_alt # None
                     /\ locals[tool_name] = registered[tool_name].local_alt[1]]_vars
\* The fields of the result of a call go with its outcome: a cache age for
\* CACHED only, an error for FAILED only, no value for QUEUED and FAILED, the
\* value the primary or the local callable returned during the call for
\* PRIMARY and LOCAL, and a value for CACHED.
ResultFieldsByOutcome ==
    [][\A tool_name \in CalledTool, a \in CalledArgs, env \in Envs :
        ( tool_name \in DOMAIN strategies /\ CallStep(tool_name, a, env) )
        => /\ last'.results # None
           /\ \E r \in {last'.results[1]} :
                /\ r.outcome \in FallbackOutcome
                /\ r.cache_age_seconds # None <=> r.outcome = CACHED
                /\ r.error # None <=> r.outcome = FAILED
                /\ r.outcome \in {QUEUED, FAILED} => r.value = None
                /\ r.outcome = PRIMARY => ( env.primary # None /\ r.value = env.primary )
                /\ r.outcome = LOCAL_OUT => ( env.local # None /\ r.value = env.local )
                /\ r.outcome = CACHED => r.value # None]_vars

\* C31: result shape.  Every result of call has a cache age iff its outcome
\* is CACHED, an error message iff it is FAILED, and no value when it is
\* QUEUED or FAILED; the value of a PRIMARY or LOCAL result is the one the
\* primary or the local callable produced during the call, and the value of
\* a CACHED result is the one the primary produced when a call with the same
\* arguments was cached.
C31_ResultShape ==
    /\ ResultFieldsByOutcome
    /\ []( Returned(CACHED)
           => \E key \in {<<last.tool[1], make_cache_key(last.call[1].args, last.call[1].kwargs)>>} :
                /\ key \in DOMAIN cache_writer
                /\ cache_writer[key].value = last.results[1].value[1]
                /\ SameArguments(cache_writer[key].call, last.call[1]) )
\* C32: in the orchestrator FAILED is unreachable and IN_FLIGHT is
\* transient.  No item, no result in the history and no returned result has
\* status FAILED; between operations no item is IN_FLIGHT; every item
\* processed by sync_all or sync_priority was made IN_FLIGHT and ends the
\* operation as SYNCED, SKIPPED or CONFLICT, and a conflicting item whose
\* policy is none of the four strategies ends it as SYNCED with its local
\* value.
C32_NoFailedNoInFlight ==
    /\ []( /\ \A item_id \in DOMAIN items :
                items[item_id].status \notin {SYNC_FAILED, IN_FLIGHT}
           /\ \A i \in DOMAIN history : history[i].status \notin {SYNC_FAILED, IN_FLIGHT}
           /\ \A i \in DOMAIN sync_last.results :
                sync_last.results[i].status \notin {SYNC_FAILED, IN_FLIGHT} )
    /\ [][\A i \in Processed :
            /\ items'[sync_last'.processed[i]].status \in {SYNCED, SKIPPED, CONFLICT}
            /\ ResultAt(i).status \in {SYNCED, SKIPPED, CONFLICT}
            /\ \E w \in DOMAIN sync_last'.writes :
                    /\ sync_last'.writes[w][1] = sync_last'.processed[i]
                    /\ sync_last'.writes[w][3] = IN_FLIGHT
            /\ ( /\ ItemAt(i).conflict_resolution = OtherPolicy
                 /\ ResultAt(i).status # SKIPPED )
               => /\ ResultAt(i).status = SYNCED
                  /\ ResultAt(i).conflict_resolved_value = Some(ItemAt(i).local_value)]_vars

\* sync_all has processed a conflicting item whose policy is none of the
\* four strategies: the item went through IN_FLIGHT and is SYNCED.
C32_Witness ==
    /\ sync_last.op = "sync_all"
    /\ Len(sync_last.processed) = 1
    /\ \E item \in {items[sync_last.processed[1]]} :
            /\ item.conflict_resolution = OtherPolicy
            /\ Diverging(item)
            /\ item.status = SYNCED
    /\ sync_last.writes = << <<sync_last.processed[1], PENDING, IN_FLIGHT>>,
                             <<sync_last.processed[1], IN_FLIGHT, SYNCED>> >>
\* A tool whose strategy disables the cache has an empty cache and a CACHED
\* counter of 0, and no cache holds a value returned by a local callable.
UncachedStaysEmpty ==
    /\ \A tool_name \in DOMAIN strategies :
            ~strategies[tool_name].enable_cache
            => /\ caches[tool_name] = <<>>
               /\ call_counts[tool_name][CACHED] = 0
    /\ \A tool_name \in DOMAIN caches : \A key \in DOMAIN caches[tool_name] :
            caches[tool_name][key].value \notin LocalValues

\* The entries of the tool's cache that the step has added or replaced.
Written(tool_name) ==
    {key \in DOMAIN caches'[tool_name] :
        key \notin DOMAIN caches[tool_name]
        \/ caches'[tool_name][key] # caches[tool_name][key]}

\* Every entry a step writes is the value of a PRIMARY result of that step,
\* stored under the key of its call for a tool that enables the cache.
WrittenByPrimaryOnly ==
    [][\A tool_name \in DOMAIN strategies \cap DOMAIN strategies' :
        last'.op # "register_tool"
        => \A key \in Written(tool_name) :
            /\ strategies[tool_name].enable_cache
            /\ last'.tool = Some(tool_name)
            /\ \/ /\ last'.op = "call"
                  /\ last'.results[1].outcome = PRIMARY
                  /\ key = make_cache_key(last'.call[1].args, last'.call[1].kwargs)
                  /\ caches'[tool_name][key] =
                        CacheEntry(last'.results[1].value[1], now,
                                   strategies[tool_name].cache_ttl_seconds)
               \/ /\ last'.op = "flush_queue"
                  /\ \E i \in DOMAIN last'.results :
                        /\ last'.results[i].outcome = PRIMARY
                        /\ key = make_cache_key(last'.replayed[i].args,
                                                last'.replayed[i].kwargs)
                        /\ caches'[tool_name][key].value = last'.results[i].value[1]]_vars

\* C33 as stated: the cache is written only by a successful primary call
\* of a tool that enables the cache; a call whose outcome is LOCAL, QUEUED
\* or FAILED leaves the cache unchanged; a tool with enable_cache false has
\* an empty cache and a CACHED counter of 0 in every state.
C33_Original ==
    /\ []UncachedStaysEmpty
    /\ WrittenByPrimaryOnly
    /\ [][\A tool_name \in CalledTool, a \in CalledArgs, env \in CascadeEnvs :
            ( /\ tool_name \in DOMAIN strategies
              /\ CallStep(tool_name, a, env)
              /\ last'.results[1].outcome \in {LOCAL_OUT, QUEUED, FAILED} )
            => caches' = caches]_vars

\* C33, amended: the cache gets entries only from a successful primary call
\* of a tool that enables the cache; a call whose outcome is CACHED leaves
\* the cache unchanged, and a call whose outcome is LOCAL, QUEUED or FAILED
\* adds and replaces nothing: it leaves the cache unchanged but for the
\* entry under its own key, which it removes when that entry has expired; a
\* tool with enable_cache false has an empty cache and a CACHED counter of
\* 0 in every state, and no value of a local callable is ever cached.
C33_CacheWrittenByPrimaryOnly ==
    /\ []UncachedStaysEmpty
    /\ WrittenByPrimaryOnly
    /\ [][\A tool_name \in CalledTool, a \in CalledArgs, env \in CascadeEnvs :
            ( tool_name \in DOMAIN strategies /\ CallStep(tool_name, a, env) )
            => \E key \in {make_cache_key(a.args, a.kwargs)} :
                /\ last'.results[1].outcome = CACHED => caches' = caches
                /\ last'.results[1].outcome \in {LOCAL_OUT, QUEUED, FAILED}
                   => caches' =
                        IF /\ strategies[tool_name].enable_cache
                           /\ key \in DOMAIN caches[tool_name]
                           /\ now - caches[tool_name][key].stored_at
                                > caches[tool_name][key].ttl_seconds
                        THEN [caches EXCEPT ![tool_name] = DictDel(@, key)]
                        ELSE caches]_vars

\* The local callable served a call of a tool whose cache holds the entry
\* of an earlier PRIMARY call with other arguments: the entry is still the
\* only one.
C33_Witness ==
    /\ Returned(LOCAL_OUT)
    /\ strategies[last.tool[1]].enable_cache
    /\ Cardinality(DOMAIN caches[last.tool[1]]) = 1
    /\ make_cache_key(last.call[1].args, last.call[1].kwargs) \notin DOMAIN caches[last.tool[1]]
    /\ \E i \in DOMAIN last.tried : last.tried[i] = <<"cache", "miss">>
\* C34: a QUEUED outcome means the call is retained for replay.  After a
\* call has returned QUEUED, whatever the max_queue_size of the tool (0
\* included), the newest entry of the tool's queue is a QueuedCall with the
\* arguments of that call and get_queue_size is at least 1.
C34_QueuedMeansRetained ==
    Returned(QUEUED)
    => /\ get_queue_size(Self, last.tool[1]) >= 1
       /\ \E entries \in {queues[last.tool[1]].items} :
            /\ entries # <<>>
            /\ entries[Len(entries)].tool_name = last.tool[1]
            /\ entries[Len(entries)].args = last.call[1].args
            /\ entries[Len(entries)].kwargs = last.call[1].kwargs
\* C35: flush_queue loses no call.  flush_queue returns one result for each
\* call queued at its start, in order; each result is PRIMARY, CACHED, LOCAL
\* or QUEUED; the queue afterwards holds exactly the calls whose result is
\* QUEUED, in their original relative order, none being evicted.  Flushing
\* while OFFLINE a tool that has only the queue tier returns QUEUED for each
\* call and leaves the queue with the same calls in the same order.
C35_FlushLosesNoCall ==
    [][\A tool_name \in FlushedTool :
        tool_name \in DOMAIN strategies
        => \E before \in {CallsOf(queues[tool_name].items)} :
            /\ last'.raised = None
            /\ Len(last'.results) = Len(before)
            /\ \A i \in DOMAIN last'.results :
                    last'.results[i].outcome \in {PRIMARY, CACHED, LOCAL_OUT, QUEUED}
            /\ CallsOf(queues'[tool_name].items) = QueuedAmong(before, last'.results)
            /\ ( /\ state = OFFLINE
                 /\ ~strategies[tool_name].enable_cache
                 /\ ~LocalAvailable(tool_name) )
               => /\ CallsOf(queues'[tool_name].items) = before
                  /\ \A i \in DOMAIN last'.results : last'.results[i].outcome = QUEUED]_vars

\* A flush of two different queued calls served the first and queued the
\* second again, which is now the only call in the queue.
C35_Witness ==
    /\ last.op = "flush_queue"
    /\ Len(last.results) = 2
    /\ last.replayed[1] # last.replayed[2]
    /\ last.results[1].outcome \in {PRIMARY, LOCAL_OUT}
    /\ last.results[2].outcome = QUEUED
    /\ CallsOf(queues[last.tool[1]].items) = <<last.replayed[2]>>
\* C36: consistency of the manual-conflict list.  Under every sequence of
\* enqueue (also of an item that is queued already), sync_all,
\* sync_priority and resolve_manual_conflict, the list holds each item at
\* most once and every item in it has status CONFLICT; after a
\* resolve_manual_conflict(id, v) that succeeded no item with that id is in
\* the list.
C36_ManualConflictListConsistent ==
    /\ []( /\ \A i, j \in DOMAIN manual_conflicts :
                manual_conflicts[i] = manual_conflicts[j] => i = j
           /\ \A i \in DOMAIN manual_conflicts :
                items[manual_conflicts[i]].status = CONFLICT )
    /\ [][\A item_id \in ResolvedId, chosen_value \in ResolvedValue :
            ( /\ sync_last'.op = "resolve_manual_conflict"
              /\ sync_last'.raised = None
              /\ ResolveManualConflict(item_id, chosen_value) )
            => \A i \in DOMAIN manual_conflicts' :
                    items'[manual_conflicts'[i]].item_id # item_id]_vars
\* C37: an unknown tool is raised only by call.  On an identifier that was
\* never registered flush_queue returns an empty list, get_queue_size
\* returns 0 and get_call_stats returns an empty mapping, none of them
\* raises, and the chain is unchanged: no strategy, callable, cache, queue
\* or counter exists for the identifier afterwards.  call on such an
\* identifier raises KeyError, and no other operation raises.
C37_UnknownToolRaisedOnlyByCall ==
    /\ []( last.raised # None => last.op = "call" )
    /\ [][\A tool_name \in Tools :
            ( tool_name \notin DOMAIN strategies /\ last'.tool = Some(tool_name) )
            => /\ last'.op = "flush_queue"
                  => ( last'.raised = None /\ last'.results = <<>> )
               /\ last'.op = "get_queue_size"
                  => ( last'.raised = None /\ last'.results = Some(0) )
               /\ last'.op = "get_call_stats"
                  => ( last'.raised = None /\ last'.results = Some(<<>>) )
               /\ last'.op = "call" => last'.raised = Some("KeyError")
               /\ last'.op \in {"flush_queue", "get_queue_size", "get_call_stats", "call"}
                  => /\ UNCHANGED chain_vars
                     /\ tool_name \notin DOMAIN caches' \cup DOMAIN queues'
                                           \cup DOMAIN call_counts']_vars

\* flush_queue was invoked on an unknown identifier while a registered tool
\* has a call in its queue; that queue is untouched.
C37_Witness ==
    /\ last.op = "flush_queue"
    /\ last.tool = Some("search")
    /\ "search" \notin DOMAIN strategies
    /\ last.results = <<>>
    /\ "weather" \in DOMAIN queues
    /\ Len(queues["weather"].items) = 1

\* The calls of resolve_manual_conflict for one item that have returned or
\* raised, each invoked while the item was flagged.
ResolvesOf(item_id) ==
    {t \in Threads : /\ threads[t].op = "resolve_manual_conflict"
                     /\ threads[t].pc = "done"
                     /\ threads[t].item_id = item_id
                     /\ threads[t].flagged}

\* The SYNCED results the log holds for an item.
SyncedResults(item_id) ==
    {i \in DOMAIN history : history[i].item_id = item_id /\ history[i].status = SYNCED}

\* Of two overlapping resolutions of one flagged item exactly one succeeds
\* and logs one SYNCED result; the other raises the not-found error.
OneResolveSucceeds ==
    \A item_id \in 1..MaxAtomicItems :
        ResolvesOf(item_id) = Threads =>
            /\ \E t \in Threads :
                  /\ threads[t].raised = None
                  /\ \A u \in Threads \ {t} : threads[u].raised = Some("KeyError")
            /\ Cardinality(SyncedResults(item_id)) = 1

\* sync_all starts on no item that is not PENDING.
SyncAllTakesPendingOnly ==
    \A ref \in DOMAIN items :
        (threads[1].pc = "next" /\ threads[1].pending # <<>> /\ threads[1].pending[1] = ref)
            => items[ref].status = PENDING

\* The checksums sync_all leaves behind for an item are those that
\* _sync_item yields from the checksum recorded at that moment, not from
\* one read before a resolution replaced it.
NoStaleChecksumWrite ==
    \A ref \in DOMAIN items :
        (/\ threads[1].op = "sync_all" /\ threads[1].pc = "rest"
         /\ threads[1].item = Some(ref) /\ threads'[1].pc = "log")
            => checksums' = sync_item(SelfSync, ref, now).orc.checksums

\* C38: manual resolution is atomic under concurrency.  When
\* resolve_manual_conflict for a flagged item runs concurrently with another
\* resolve_manual_conflict for the same item or with sync_all, their
\* statements interleaved, exactly one resolve succeeds and appends exactly
\* one SYNCED result for the item, any other resolve of that item fails with
\* the not-found error (KeyError), and sync_all neither processes the item
\* again nor overwrites the checksum recorded by the resolution with one
\* derived from a stale read.
C38_ResolveAtomic ==
    /\ []OneResolveSucceeds
    /\ []SyncAllTakesPendingOnly
    /\ [][NoStaleChecksumWrite]_vars


\* A task that process_queue did not complete: its processor returned a
\* false value or raised.
FailedIn(id) ==
    /\ tasks[id].status = PENDING
    /\ tasks'[id] # tasks[id]
    /\ tasks'[id].status # COMPLETED

\* A failed attempt adds 1 to retry_count; the task stays PENDING below
\* max_retry_attempts and becomes FAILED on reaching it.
FailureCounted ==
    \A id \in DOMAIN tasks :
        FailedIn(id) =>
            tasks'[id] = [tasks[id] EXCEPT
                            !.retry_count = @ + 1,
                            !.status = IF tasks[id].retry_count + 1 >= edge_policy.max_retry_attempts
                                       THEN FAILED ELSE PENDING]

\* A FAILED task is in the completed history and not in the queue.
FailedMoved ==
    \A id \in DOMAIN tasks :
        tasks[id].status = FAILED =>
            /\ \A i \in DOMAIN edge_queue : edge_queue[i] # id
            /\ \E i \in DOMAIN edge_completed : edge_completed[i] = id

\* A FAILED task is never processed again.
FailedIsFinal ==
    \A id \in DOMAIN tasks : tasks[id].status = FAILED => tasks'[id] = tasks[id]

\* Under one policy retry_count never exceeds max_retry_attempts, and a
\* task that failed in every call that processed it is FAILED after exactly
\* max_retry_attempts of them.
RetriesBounded ==
    ~policy_replaced =>
        \A id \in DOMAIN tasks :
            /\ tasks[id].retry_count <= edge_policy.max_retry_attempts
            /\ tasks[id].status = FAILED =>
                   tasks[id].retry_count = edge_policy.max_retry_attempts

\* C39: edge SyncManager bounded retry.  A task whose processor fails stays
\* PENDING with retry_count incremented by 1 per failed attempt and is
\* retried by later process_queue calls until retry_count reaches
\* policy.max_retry_attempts; then it becomes FAILED, is moved from the queue
\* to the completed history and is never processed again.  Under an
\* always-failing processor a task becomes FAILED after exactly
\* max_retry_attempts process_queue calls, and retry_count never exceeds
\* max_retry_attempts.
C39_BoundedRetry ==
    /\ [][FailureCounted]_vars
    /\ []FailedMoved
    /\ [][FailedIsFinal]_vars
    /\ []RetriesBounded

====
